---- MODULE Spec2Model ----
(***************************************************************************)
(* Model of the agentic RAG chatbot of src/Chatbot/Chatbot.py: the         *)
(* StateManager (per-session state, error history, retry and failure       *)
(* counters), the workflow graph built by AgenticRAG.setup_workflow with   *)
(* its four safe_* nodes and two conditional edges, and the facade         *)
(* AgenticRAG.generate_response that drives the graph's stream.            *)
(*                                                                         *)
(* External collaborators (the language model, the retriever, the web      *)
(* search, the graph runtime's stream) are modelled by their outcomes:     *)
(* every call returns one of a small set of values of its type, or raises. *)
(***************************************************************************)
EXTENDS Integers, Sequences, FiniteSets, TLC

VARIABLES
    session_states,   \* StateManager.session_states: session id -> session dict
    error_seq,        \* per session: number of SystemError records created so far (their timestamps)
    since_reset,      \* per session: log_error calls since the last reset_failures (history variable)
    pc,               \* position of the request being served
    question,         \* generate_response argument
    session_id,       \* generate_response argument
    depth,            \* number of recursive generate_response frames below the outer call
    step_count,       \* local step_count of the running (or last) frame
    wf,               \* the graph state threaded through the nodes
    node,             \* the node the graph will run next
    edge,             \* the last evaluation of the generation edge: its verdict, the generation it judged and the counters it left
    result,           \* how the last outer generate_response call ended
    ret               \* return value of the last direct StateManager call

vars == <<session_states, error_seq, since_reset, pc, question, session_id, depth,
          step_count, wf, node, edge, result, ret>>

(***************************************************************************)
(* Bounds of the model.                                                    *)
(***************************************************************************)
\* Cap on the number of errors the workflow nodes log for one session.
MaxLogged == 5
\* Cap on the number of errors logged for one session by direct log_error calls.
MaxDirectErrors == 6
\* Cap on retry_count when increment_retry is called directly on the StateManager.
MaxDirectRetries == 4
\* Cap on the sentiment results recorded for one session through /chat.
MaxSentiments == 1
\* Cap on the errors logged for one session while /chat requests are served.
MaxChatErrors == 1
\* Cap on the steps of one run of the graph consumed past the generate node.
MaxGraphSteps == 6
\* Cap on the errors logged for one session by nodes called on their own.
MaxNodeErrors == 2
\* Cap on the errors logged for one session by direct analyze_sentiment calls.
MaxSentimentErrors == 6

(***************************************************************************)
(* Program constants.                                                      *)
(***************************************************************************)
max_retry_attempts == 3
MaxErrorsKept == 5
FailureRetryLimit == 3
UnhealthyThreshold == 5
StepCap == 10
MinQuestionLen == 3
MinResponseLen == 10
MinGenerationLen == 10
SentimentHistoryKept == 10
n8n_retries == 2
n8n_enabled == TRUE

None == "None"

SessionIds == {"default"}

\* the session ids of the requests that reach the /chat endpoint
ChatSessionIds == {"default", "s2"}

ErrorTypes == {"RETRIEVAL_ERROR", "GENERATION_ERROR", "GRADING_ERROR", "SEARCH_ERROR",
               "VALIDATION_ERROR", "NETWORK_ERROR", "SYSTEM_ERROR"}

ProcessingStates == {"INITIALIZED", "RETRIEVING", "GRADING", "GENERATING", "TRANSFORMING",
                     "SEARCHING", "COMPLETED", "FAILED", "RETRYING"}

\* SystemError dataclass; retry_count and recoverable keep their defaults everywhere.
MkError(error_type, node_name, ts) ==
    [error_type |-> error_type, node |-> node_name, timestamp |-> ts,
     retry_count |-> 0, recoverable |-> TRUE]

(***************************************************************************)
(* Python helpers.                                                         *)
(***************************************************************************)
Min(a, b) == IF a < b THEN a ELSE b

\* seq[-n:]
LastN(seq, n) ==
    IF Len(seq) <= n THEN seq ELSE SubSeq(seq, Len(seq) - n + 1, Len(seq))

\* seq[:n]
FirstN(seq, n) == SubSeq(seq, 1, Min(n, Len(seq)))

\* dict.update
DictUpdate(d, patch) ==
    [k \in DOMAIN d \cup DOMAIN patch |-> IF k \in DOMAIN patch THEN patch[k] ELSE d[k]]

EmptyDict == [k \in {} |-> None]

(***************************************************************************)
(* Texts.  A str is its leading/trailing whitespace (pad), the length of   *)
(* what strip() leaves (core) and whether it contains one of the marker    *)
(* phrases "technical difficulties" / "apologize"; isstr is FALSE for a    *)
(* value that is not a str (and so has neither strip() nor lower()).       *)
(***************************************************************************)
Str(id, pad, core, marker) ==
    [id |-> id, isstr |-> TRUE, pad |-> pad, core |-> core, marker |-> marker]
NonStr(id) == [id |-> id, isstr |-> FALSE, pad |-> 0, core |-> 1, marker |-> FALSE]

PyLen(t) == t.pad + t.core
Truthy(t) == IF t.isstr THEN PyLen(t) > 0 ELSE TRUE
StripLen(t) == t.core

(***************************************************************************)
(* StateManager.                                                           *)
(***************************************************************************)
DefaultSession ==
    [state |-> "INITIALIZED", errors |-> <<>>, retry_count |-> 0,
     context |-> EmptyDict, consecutive_failures |-> 0]

NoSessions == [s \in {} |-> DefaultSession]

initialize_session(ss, id) ==
    IF id \in DOMAIN ss THEN ss
    ELSE [s \in DOMAIN ss \cup {id} |-> IF s = id THEN DefaultSession ELSE ss[s]]

update_state(ss, id, state, context) ==
    LET s1 == initialize_session(ss, id)
    \* "if context:" is false for None and for {} alike
    IN  [s1 EXCEPT ![id].state = state,
                   ![id].context = IF DOMAIN context = {}
                                   THEN @ ELSE DictUpdate(@, context)]

\* a plausible slip: the slice keeps the first five errors
log_error_keep_first(ss, id, error) ==
    LET s1 == initialize_session(ss, id)
        appended == Append(s1[id].errors, error)
    IN  [s1 EXCEPT ![id].errors = IF Len(appended) > MaxErrorsKept
                                  THEN FirstN(appended, MaxErrorsKept) ELSE appended,
                   ![id].consecutive_failures = @ + 1]

log_error(ss, id, error) ==
    LET s1 == initialize_session(ss, id)
        appended == Append(s1[id].errors, error)
    IN  [s1 EXCEPT ![id].errors = IF Len(appended) > MaxErrorsKept
                                  THEN LastN(appended, MaxErrorsKept) ELSE appended,
                   ![id].consecutive_failures = @ + 1]

\* a plausible slip: setdefault for get, which stores the default for a new id
StoreAfterGet_setdefault(ss, id) ==
    IF id \in DOMAIN ss THEN ss
    ELSE [s \in DOMAIN ss \cup {id} |-> IF s = id THEN DefaultSession ELSE ss[s]]

\* session_states after session_states.get(id, {}): the lookup stores nothing
StoreAfterGet(ss, id) == ss

\* session_states.get(id, {}).get(key, 0)
GetCounter(ss, id, key) ==
    IF id \in DOMAIN ss THEN ss[id][key] ELSE 0

\* a plausible slip: validation errors are not singled out
should_retry_any_kind(ss, id, error_type) ==
    IF GetCounter(ss, id, "consecutive_failures") >= FailureRetryLimit
    THEN FALSE
    ELSE GetCounter(ss, id, "retry_count") < max_retry_attempts

\* a plausible slip: the failure count is not consulted
should_retry_ignore_failures(ss, id, error_type) ==
    IF error_type = "VALIDATION_ERROR"
    THEN FALSE
    ELSE GetCounter(ss, id, "retry_count") < max_retry_attempts

\* a plausible slip: <= for <
should_retry_off_by_one(ss, id, error_type) ==
    IF error_type = "VALIDATION_ERROR"
       \/ GetCounter(ss, id, "consecutive_failures") >= FailureRetryLimit
    THEN FALSE
    ELSE GetCounter(ss, id, "retry_count") <= max_retry_attempts

should_retry(ss, id, error_type) ==
    IF error_type = "VALIDATION_ERROR"
       \/ GetCounter(ss, id, "consecutive_failures") >= FailureRetryLimit
    THEN FALSE
    ELSE GetCounter(ss, id, "retry_count") < max_retry_attempts

\* a plausible slip: a retry also marks the session as retrying
increment_retry_marks_retrying(ss, id) ==
    LET s1 == initialize_session(ss, id)
    IN  [s1 EXCEPT ![id].retry_count = @ + 1, ![id].state = "RETRYING"]

increment_retry(ss, id) ==
    LET s1 == initialize_session(ss, id)
    IN  [s1 EXCEPT ![id].retry_count = @ + 1]

\* a plausible slip: only the failure counter is cleared
reset_failures_keep_retries(ss, id) ==
    LET s1 == initialize_session(ss, id)
    IN  [s1 EXCEPT ![id].consecutive_failures = 0]

reset_failures(ss, id) ==
    LET s1 == initialize_session(ss, id)
    IN  [s1 EXCEPT ![id].consecutive_failures = 0, ![id].retry_count = 0]

\* a plausible slip: <= for <
get_session_health_off_by_one(ss, id) ==
    [healthy |-> GetCounter(ss, id, "consecutive_failures") <= UnhealthyThreshold,
     consecutive_failures |-> GetCounter(ss, id, "consecutive_failures"),
     retry_count |-> GetCounter(ss, id, "retry_count")]

get_session_health(ss, id) ==
    [healthy |-> GetCounter(ss, id, "consecutive_failures") < UnhealthyThreshold,
     consecutive_failures |-> GetCounter(ss, id, "consecutive_failures"),
     retry_count |-> GetCounter(ss, id, "retry_count")]

(***************************************************************************)
(* Outcomes of external calls: <<>> when the call raises, <<v>> when it    *)
(* returns v.  The same encoding is used for Python's None / a value.      *)
(***************************************************************************)
Raise == <<>>
Ret(v) == <<v>>
Raised(o) == Len(o) = 0
Val(o) == o[1]

(***************************************************************************)
(* The fixed texts of the program.                                         *)
(***************************************************************************)
MSG_CLARIFY == Str("Please provide a more specific question", 0, 65, FALSE)
MSG_UNHEALTHY == Str("Please try starting a new conversation", 0, 69, FALSE)
MSG_TOO_SHORT == Str("couldn't provide a complete answer", 0, 105, FALSE)
MSG_TROUBLE == Str("I'm having trouble processing your question", 0, 102, FALSE)
MSG_MAX_RETRIES == Str("I'm having trouble answering your question", 0, 103, FALSE)
MSG_TECHNICAL == Str("I'm experiencing technical difficulties", 0, 72, TRUE)
GEN_NO_DOCUMENTS == Str("I apologize, but I don't have enough information", 0, 147, TRUE)
GEN_INCOMPLETE == Str("couldn't generate a complete response", 0, 131, FALSE)
GEN_FALLBACK == Str("technical difficulties generating a response", 0, 141, TRUE)

(***************************************************************************)
(* Values the collaborators can return.                                    *)
(***************************************************************************)
\* questions a caller can pass: a proper one, the empty string, one that is
\* long enough only before strip(), and a truthy value that is not a str
Questions == { Str("What is Assessli?", 0, 17, FALSE), Str("", 0, 0, FALSE),
               Str("  hi  ", 4, 2, FALSE), NonStr("42") }

\* retriever.invoke(question): at most k = 4 documents
RetrieverOutcomes == { Raise, Ret(<<>>), Ret(<<"d1", "d2", "d3">>) }

\* duckduckgo_search never raises: it returns [] on any failure
WebResults == { <<>>, <<"w1">> }

\* binary_score of a grader call, or the call raising
GraderOutcomes == { Raise, Ret("yes"), Ret("no") }

\* one grader outcome per document: the same for all, or no / yes / raise in turn
GradeVectors(n) ==
    { [i \in 1 .. n |-> g] : g \in GraderOutcomes }
    \cup { [i \in 1 .. n |-> IF i = 1 THEN Ret("no") ELSE IF i = 2 THEN Ret("yes") ELSE Raise] }

\* rag_chain.invoke: a str (StrOutputParser), or the chain raising
RagOutcomes == { Raise, Ret(Str("answer", 0, 40, FALSE)), Ret(Str(" ok ", 2, 2, FALSE)),
                 Ret(Str("I apologize ...", 0, 30, TRUE)) }

\* llm.invoke(simple_prompt).content: a str or a list of content blocks, or the call raising
FallbackOutcomes == { Raise, Ret(Str("answer", 0, 40, FALSE)), Ret(Str("", 0, 0, FALSE)),
                      Ret(NonStr("content blocks")) }

\* question_rewriter.invoke: a str, or the chain raising
RewriterOutcomes == { Raise, Ret(Str("rewritten question", 0, 18, FALSE)),
                      Ret(Str("", 0, 0, FALSE)), Ret(Str(" why ", 2, 3, FALSE)) }

(***************************************************************************)
(* Workflow nodes.  Each returns the new session store, the state update   *)
(* it hands to the graph and the number of errors it logged.  The          *)
(* error_message channel, which the nodes write and nothing reads, is left *)
(* out of the graph state.                                                 *)
(***************************************************************************)
\* a plausible slip: the handler was copied from safe_generate with its tags
safe_retrieve_copied_handler(ss, state, ts, retrieved) ==
    LET sid == state.session_id
        s1 == update_state(ss, sid, "RETRIEVING", EmptyDict)
    IN  IF Raised(retrieved)
        THEN [ss |-> log_error(s1, sid, MkError("GENERATION_ERROR", "generate", ts)),
              update |-> [documents |-> <<>>, question |-> state.question, session_id |-> sid],
              logged |-> 1]
        ELSE [ss |-> s1,
              update |-> [documents |-> Val(retrieved), question |-> state.question,
                          session_id |-> sid],
              logged |-> 0]

safe_retrieve(ss, state, ts, retrieved) ==
    LET sid == state.session_id
        s1 == update_state(ss, sid, "RETRIEVING", EmptyDict)
    IN  IF Raised(retrieved)
        THEN [ss |-> log_error(s1, sid, MkError("RETRIEVAL_ERROR", "retrieve", ts)),
              update |-> [documents |-> <<>>, question |-> state.question, session_id |-> sid],
              logged |-> 1]
        ELSE IF Val(retrieved) = <<>>
        THEN [ss |-> s1,
              update |-> [documents |-> <<>>, question |-> state.question, session_id |-> sid],
              logged |-> 0]
        ELSE [ss |-> s1,
              update |-> [documents |-> Val(retrieved), question |-> state.question,
                          session_id |-> sid],
              logged |-> 0]

\* a plausible slip: a document whose grader call raised is dropped
RECURSIVE FilterDocsFailClosed(_, _)
FilterDocsFailClosed(documents, grades) ==
    IF documents = <<>> THEN <<>>
    ELSE LET keep == ~Raised(Head(grades)) /\ Val(Head(grades)) = "yes"
             rest == FilterDocsFailClosed(Tail(documents), Tail(grades))
         IN  IF keep THEN <<Head(documents)>> \o rest ELSE rest

\* the documents whose grade is "yes" or whose grader call raised, in order
RECURSIVE FilterDocs(_, _)
FilterDocs(documents, grades) ==
    IF documents = <<>> THEN <<>>
    ELSE LET keep == Raised(Head(grades)) \/ Val(Head(grades)) = "yes"
             rest == FilterDocs(Tail(documents), Tail(grades))
         IN  IF keep THEN <<Head(documents)>> \o rest ELSE rest

\* a plausible slip: no fallback to the retrieved documents
safe_grade_documents_no_raw_fallback(ss, state, ts, grades, web) ==
    LET sid == state.session_id
        s1 == update_state(ss, sid, "GRADING", EmptyDict)
        documents == state.documents
        filtered == FilterDocs(documents, grades)
    IN  [ss |-> s1,
         update |-> [documents |-> IF filtered # <<>> THEN filtered ELSE web,
                     question |-> state.question, session_id |-> sid],
         logged |-> 0]

safe_grade_documents(ss, state, ts, grades, web) ==
    LET sid == state.session_id
        s1 == update_state(ss, sid, "GRADING", EmptyDict)
        documents == state.documents
        filtered == FilterDocs(documents, grades)
    IN  IF documents = <<>>
        THEN IF web # <<>>
             THEN [ss |-> s1,
                   update |-> [documents |-> web, question |-> state.question,
                               session_id |-> sid],
                   logged |-> 0]
             ELSE [ss |-> s1,
                   update |-> [documents |-> <<>>, question |-> state.question,
                               session_id |-> sid],
                   logged |-> 0]
        ELSE [ss |-> s1,
              update |-> [documents |-> IF filtered # <<>> THEN filtered
                                        ELSE IF web # <<>> THEN web
                                        ELSE FirstN(documents, 2),
                          question |-> state.question, session_id |-> sid],
              logged |-> 0]

safe_generate(ss, state, ts, rag, fallback) ==
    LET sid == state.session_id
        s1 == update_state(ss, sid, "GENERATING", EmptyDict)
        documents == state.documents
        out(g) == [documents |-> documents, question |-> state.question,
                   generation |-> Ret(g), session_id |-> sid]
    IN  IF documents = <<>>
        THEN [ss |-> s1, update |-> out(GEN_NO_DOCUMENTS), logged |-> 0]
        ELSE IF ~Raised(rag)
        THEN [ss |-> s1,
              update |-> out(IF ~Truthy(Val(rag)) \/ StripLen(Val(rag)) < MinGenerationLen
                             THEN GEN_INCOMPLETE ELSE Val(rag)),
              logged |-> 0]
        ELSE IF ~Raised(fallback)
        THEN [ss |-> s1, update |-> out(Val(fallback)), logged |-> 0]
        ELSE [ss |-> log_error(s1, sid, MkError("GENERATION_ERROR", "generate", ts)),
              update |-> out(GEN_FALLBACK), logged |-> 1]

\* a plausible slip: the rewriter's text is handed on whatever its length
safe_transform_query_any_length(ss, state, ts, rewritten) ==
    LET sid == state.session_id
        s1 == update_state(ss, sid, "TRANSFORMING", EmptyDict)
    IN  IF Raised(rewritten)
        THEN [ss |-> log_error(s1, sid, MkError("SYSTEM_ERROR", "transform_query", ts)),
              update |-> [documents |-> state.documents, question |-> state.question,
                          session_id |-> sid],
              logged |-> 1]
        ELSE [ss |-> s1,
              update |-> [documents |-> state.documents, question |-> Val(rewritten),
                          session_id |-> sid],
              logged |-> 0]

safe_transform_query(ss, state, ts, rewritten) ==
    LET sid == state.session_id
        s1 == update_state(ss, sid, "TRANSFORMING", EmptyDict)
    IN  IF Raised(rewritten)
        THEN [ss |-> log_error(s1, sid, MkError("SYSTEM_ERROR", "transform_query", ts)),
              update |-> [documents |-> state.documents, question |-> state.question,
                          session_id |-> sid],
              logged |-> 1]
        ELSE [ss |-> s1,
              update |-> [documents |-> state.documents,
                          question |-> IF ~Truthy(Val(rewritten)) \/ StripLen(Val(rewritten)) < 5
                                       THEN state.question ELSE Val(rewritten),
                          session_id |-> sid],
              logged |-> 0]

(***************************************************************************)
(* Conditional edges.                                                      *)
(***************************************************************************)
\* a plausible slip: the emptiness of the documents is not consulted
decide_to_generate_always_generate(state) == "generate"

decide_to_generate(state) ==
    IF state.documents = <<>> THEN "transform_query" ELSE "generate"

\* a plausible slip: a grader that raises counts as a grade of "no"
grade_generation_fail_closed(ss, state, grounded, answers) ==
    LET generation == Val(state.generation)
        sid == state.session_id
    IN  IF ~generation.isstr
        THEN [ss |-> ss, verdict |-> "useful", reset |-> FALSE, consulted |-> <<>>]
        ELSE IF generation.marker
        THEN [ss |-> ss, verdict |-> "not useful", reset |-> FALSE, consulted |-> <<>>]
        ELSE IF Raised(grounded) \/ Val(grounded) = "no"
        THEN [ss |-> ss, verdict |-> "not supported", reset |-> FALSE,
              consulted |-> <<"hallucination_grader">>]
        ELSE IF Raised(answers) \/ Val(answers) = "no"
        THEN [ss |-> ss, verdict |-> "not useful", reset |-> FALSE,
              consulted |-> <<"hallucination_grader", "answer_grader">>]
        ELSE [ss |-> reset_failures(ss, sid), verdict |-> "useful", reset |-> TRUE,
              consulted |-> <<"hallucination_grader", "answer_grader">>]

\* a plausible slip: the counters are cleared before the generation is judged
grade_generation_reset_first(ss, state, grounded, answers) ==
    LET generation == Val(state.generation)
        sid == state.session_id
        cleared == reset_failures(ss, sid)
    IN  IF ~generation.isstr
        THEN [ss |-> ss, verdict |-> "useful", reset |-> FALSE, consulted |-> <<>>]
        ELSE IF generation.marker
        THEN [ss |-> cleared, verdict |-> "not useful", reset |-> TRUE, consulted |-> <<>>]
        ELSE IF ~Raised(grounded) /\ Val(grounded) = "no"
        THEN [ss |-> cleared, verdict |-> "not supported", reset |-> TRUE,
              consulted |-> <<"hallucination_grader">>]
        ELSE IF ~Raised(answers) /\ Val(answers) = "no"
        THEN [ss |-> cleared, verdict |-> "not useful", reset |-> TRUE,
              consulted |-> <<"hallucination_grader", "answer_grader">>]
        ELSE [ss |-> cleared, verdict |-> "useful", reset |-> TRUE,
              consulted |-> <<"hallucination_grader", "answer_grader">>]

\* The generation edge: its verdict, the session store it leaves, whether it
\* called reset_failures and the graders it invoked, in order.
\* generation.lower() raises on a value that is not a str; the outer handler
\* then answers "useful" without touching the session.
grade_generation_v_documents_and_question(ss, state, grounded, answers) ==
    LET generation == Val(state.generation)
        sid == state.session_id
    IN  IF ~generation.isstr
        THEN [ss |-> ss, verdict |-> "useful", reset |-> FALSE, consulted |-> <<>>]
        ELSE IF generation.marker
        THEN [ss |-> ss, verdict |-> "not useful", reset |-> FALSE, consulted |-> <<>>]
        ELSE IF ~Raised(grounded) /\ Val(grounded) = "no"
        THEN [ss |-> ss, verdict |-> "not supported", reset |-> FALSE,
              consulted |-> <<"hallucination_grader">>]
        ELSE IF ~Raised(answers) /\ Val(answers) = "no"
        THEN [ss |-> ss, verdict |-> "not useful", reset |-> FALSE,
              consulted |-> <<"hallucination_grader", "answer_grader">>]
        ELSE [ss |-> reset_failures(ss, sid), verdict |-> "useful", reset |-> TRUE,
              consulted |-> <<"hallucination_grader", "answer_grader">>]

\* a plausible slip: the targets of the two failing verdicts are exchanged
GenerateEdgeExchanged(v) ==
    CASE v = "not supported" -> "transform_query"
      [] v = "useful" -> "END"
      [] v = "not useful" -> "generate"

\* add_conditional_edges("generate", ...): verdict -> next node
GenerateEdge(v) ==
    CASE v = "not supported" -> "generate"
      [] v = "useful" -> "END"
      [] v = "not useful" -> "transform_query"

(***************************************************************************)
(* generate_response.  A request is served in atomic steps: the call up to *)
(* the first request for a workflow step; each workflow step with the loop *)
(* body that consumes its output and, when the loop is left, the code      *)
(* after the loop; the handler of a raising workflow run, with the         *)
(* recursive call it makes up to that call's first workflow step.          *)
(***************************************************************************)
\* the graph state before a node has run: the inputs of app.stream
InitialGraphState(q, sid) ==
    [question |-> q, session_id |-> sid, documents |-> <<>>, generation |-> <<>>]

IdleGraphState == InitialGraphState(Str("", 0, 0, FALSE), "default")

\* how a generate_response frame ends
Returned(text) == [kind |-> "return", text |-> text]
Propagated(exc) == [kind |-> "raise", text |-> NonStr(exc)]

\* a plausible slip: no outermost handler
OutermostExceptMissing(exc) == Propagated(exc)

\* except Exception at the outermost level of generate_response
OutermostExcept(exc) == Returned(MSG_TECHNICAL)

\* a plausible slip: the health check is skipped
PrologueNoHealthCheck(ss, q, sid) ==
    LET s1 == initialize_session(ss, sid)
    IN  IF ~Truthy(q) THEN [ss |-> s1, end |-> Ret(Returned(MSG_CLARIFY))]
        ELSE IF ~q.isstr THEN [ss |-> s1, end |-> Ret(OutermostExcept("AttributeError"))]
        ELSE IF StripLen(q) < MinQuestionLen
        THEN [ss |-> s1, end |-> Ret(Returned(MSG_CLARIFY))]
        ELSE [ss |-> s1, end |-> <<>>]

\* a plausible slip: the question is not validated
PrologueNoValidation(ss, q, sid) ==
    LET s1 == initialize_session(ss, sid)
    IN  IF ~q.isstr THEN [ss |-> s1, end |-> Ret(OutermostExcept("AttributeError"))]
        ELSE IF ~get_session_health(s1, sid).healthy
        THEN [ss |-> s1, end |-> Ret(Returned(MSG_UNHEALTHY))]
        ELSE [ss |-> s1, end |-> <<>>]

\* generate_response up to the workflow run: the session store it leaves, and how
\* the frame ends if it ends here (<<>> when the workflow is to be run)
Prologue(ss, q, sid) ==
    LET s1 == initialize_session(ss, sid)
    IN  IF ~Truthy(q) THEN [ss |-> s1, end |-> Ret(Returned(MSG_CLARIFY))]
        ELSE IF ~q.isstr THEN [ss |-> s1, end |-> Ret(OutermostExcept("AttributeError"))]
        ELSE IF StripLen(q) < MinQuestionLen
        THEN [ss |-> s1, end |-> Ret(Returned(MSG_CLARIFY))]
        ELSE IF ~get_session_health(s1, sid).healthy
        THEN [ss |-> s1, end |-> Ret(Returned(MSG_UNHEALTHY))]
        ELSE [ss |-> s1, end |-> <<>>]

\* a plausible slip: the counter is never advanced
NextStepCountStuck(c) == c

\* step_count += 1
NextStepCount(c) == c + 1

\* a plausible slip: no step ceiling
StepCapReachedNever(c) == FALSE

\* if step_count > 10: break
StepCapReached(c) == c > StepCap

\* a frame at depth d returns after consuming steps workflow steps, ev being the
\* last evaluation of the generation edge: every frame above it prepends the
\* retry notice, and the outer call returns
Finished(end, d, steps, ev) ==
    /\ pc' = "idle"
    /\ edge' = ev
    /\ result' = Ret([kind |-> end.kind, notices |-> d, text |-> end.text])
    /\ depth' = 0
    /\ step_count' = steps
    /\ wf' = IdleGraphState
    /\ node' = "START"

\* a frame at depth d starts on the session store ss
Begin(ss, q, sid, d) ==
    LET p == Prologue(ss, q, sid)
    IN  /\ session_states' = p.ss
        /\ IF p.end # <<>>
           THEN Finished(Val(p.end), d, 0, <<>>)
           ELSE /\ pc' = "stream"
                /\ result' = <<>>
                /\ edge' = <<>>
                /\ depth' = d
                /\ step_count' = 0
                /\ wf' = InitialGraphState(q, sid)
                /\ node' = "retrieve"

\* a plausible slip: every call starts with a fresh retry budget
CallWithFreshBudget(q, sid) ==
    /\ pc = "idle"
    /\ question' = q
    /\ session_id' = sid
    /\ Begin(IF sid \in DOMAIN session_states
             THEN [session_states EXCEPT ![sid].retry_count = 0] ELSE session_states,
             q, sid, 0)
    /\ UNCHANGED <<error_seq, since_reset, ret>>

\* the environment calls generate_response(q, sid)
Call(q, sid) ==
    /\ pc = "idle"
    /\ question' = q
    /\ session_id' = sid
    /\ Begin(session_states, q, sid, 0)
    /\ UNCHANGED <<error_seq, since_reset, ret>>

\* a plausible slip: the handler logs the exception before it decides
InnerExceptLogsError(ss, steps, ev) ==
    LET s1 == log_error(ss, session_id,
                        MkError("SYSTEM_ERROR", "workflow", error_seq[session_id] + 1))
    IN  IF should_retry(s1, session_id, "SYSTEM_ERROR")
        THEN Begin(increment_retry(s1, session_id), question, session_id, depth + 1)
        ELSE /\ session_states' = s1
             /\ Finished(Returned(MSG_MAX_RETRIES), depth, steps, ev)

\* the handler of the inner try, on the session store ss after steps workflow
\* steps: retry by recursion, or give up
InnerExcept(ss, steps, ev) ==
    IF should_retry(ss, session_id, "SYSTEM_ERROR")
    THEN Begin(increment_retry(ss, session_id), question, session_id, depth + 1)
    ELSE /\ session_states' = ss
         /\ Finished(Returned(MSG_MAX_RETRIES), depth, steps, ev)

\* a plausible slip: the response length is not checked
PostLoopNoLengthCheck(ss, final_output, steps, ev) ==
    IF final_output # <<>> /\ "generation" \in DOMAIN Val(final_output)
    THEN LET response == Val(Val(final_output).generation)
         IN  IF ~response.isstr
             THEN InnerExcept(ss, steps, ev)
             ELSE /\ session_states' = update_state(ss, session_id, "COMPLETED", EmptyDict)
                  /\ Finished(Returned(response), depth, steps, ev)
    ELSE /\ session_states' = ss
         /\ Finished(Returned(MSG_TROUBLE), depth, steps, ev)

\* a plausible slip: the session is never marked completed
PostLoopNeverCompleted(ss, final_output, steps, ev) ==
    IF final_output # <<>> /\ "generation" \in DOMAIN Val(final_output)
    THEN LET response == Val(Val(final_output).generation)
         IN  IF ~response.isstr
             THEN InnerExcept(ss, steps, ev)
             ELSE IF StripLen(response) < MinResponseLen
             THEN /\ session_states' = ss
                  /\ Finished(Returned(MSG_TOO_SHORT), depth, steps, ev)
             ELSE /\ session_states' = ss
                  /\ Finished(Returned(response), depth, steps, ev)
    ELSE /\ session_states' = ss
         /\ Finished(Returned(MSG_TROUBLE), depth, steps, ev)

\* generate_response after the loop, with the local final_output
PostLoop(ss, final_output, steps, ev) ==
    IF final_output # <<>> /\ "generation" \in DOMAIN Val(final_output)
    THEN LET response == Val(Val(final_output).generation)
         IN  IF ~response.isstr
             THEN InnerExcept(ss, steps, ev)
             ELSE IF StripLen(response) < MinResponseLen
             THEN /\ session_states' = ss
                  /\ Finished(Returned(MSG_TOO_SHORT), depth, steps, ev)
             ELSE /\ session_states' = update_state(ss, session_id, "COMPLETED", EmptyDict)
                  /\ Finished(Returned(response), depth, steps, ev)
    ELSE /\ session_states' = ss
         /\ Finished(Returned(MSG_TROUBLE), depth, steps, ev)

\* a plausible slip: no break at the generate output, the stream is consumed
\* until the graph ends
LoopBodyKeepsStreaming(ss, name, update, next, ev) ==
    LET steps == NextStepCount(step_count)
    IN  IF name = "generate" /\ next = "END"
        THEN PostLoop(ss, Ret(update), steps, ev)
        ELSE IF StepCapReached(steps)
        THEN PostLoop(ss, <<>>, steps, ev)
        ELSE /\ session_states' = ss
             /\ edge' = ev
             /\ step_count' = steps
             /\ wf' = DictUpdate(wf, update)
             /\ node' = next
             /\ pc' = "stream"
             /\ UNCHANGED <<depth, result>>

\* the body of "for output in self.app.stream(inputs)" for the output of the
\* node called name, which left the session store ss and goes on to next
LoopBody(ss, name, update, next, ev) ==
    LET steps == NextStepCount(step_count)
    IN  IF name = "generate"
        THEN PostLoop(ss, Ret(update), steps, ev)
        ELSE IF StepCapReached(steps)
        THEN PostLoop(ss, <<>>, steps, ev)
        ELSE /\ session_states' = ss
             /\ edge' = ev
             /\ step_count' = steps
             /\ wf' = DictUpdate(wf, update)
             /\ node' = next
             /\ pc' = "stream"
             /\ UNCHANGED <<depth, result>>

\* the bookkeeping of a node that logged n errors and may have reset the counters
Bookkeeping(sid, n, reset) ==
    /\ n = 0 \/ error_seq[sid] < MaxLogged
    /\ error_seq' = [error_seq EXCEPT ![sid] = @ + n]
    /\ since_reset' = [since_reset EXCEPT ![sid] = IF reset THEN 0 ELSE @ + n]

StepRetrieve(outcomes) ==
    /\ pc = "stream" /\ node = "retrieve"
    /\ \E retrieved \in outcomes :
         LET r == safe_retrieve(session_states, wf, error_seq[wf.session_id] + 1, retrieved)
         IN  /\ Bookkeeping(wf.session_id, r.logged, FALSE)
             /\ LoopBody(r.ss, "retrieve", r.update, "grade_documents", edge)
    /\ UNCHANGED <<question, session_id, ret>>

StepGradeDocuments(webs) ==
    /\ pc = "stream" /\ node = "grade_documents"
    /\ \E grades \in GradeVectors(Len(wf.documents)), web \in webs :
         LET r == safe_grade_documents(session_states, wf, error_seq[wf.session_id] + 1,
                                       grades, web)
         IN  /\ Bookkeeping(wf.session_id, r.logged, FALSE)
             /\ LoopBody(r.ss, "grade_documents", r.update,
                         decide_to_generate(DictUpdate(wf, r.update)), edge)
    /\ UNCHANGED <<question, session_id, ret>>

StepGenerate(rags, fallbacks) ==
    /\ pc = "stream" /\ node = "generate"
    /\ \E rag \in rags, grounded \in GraderOutcomes, answers \in GraderOutcomes :
       \E fallback \in IF Raised(rag) THEN fallbacks ELSE {Raise} :
         LET r == safe_generate(session_states, wf, error_seq[wf.session_id] + 1, rag, fallback)
             e == grade_generation_v_documents_and_question(
                      r.ss, DictUpdate(wf, r.update), grounded, answers)
         IN  /\ Bookkeeping(wf.session_id, r.logged, e.reset)
             /\ LoopBody(e.ss, "generate", r.update, GenerateEdge(e.verdict),
                         Ret([verdict |-> e.verdict,
                              generation |-> Val(r.update.generation),
                              retry_count |-> GetCounter(e.ss, wf.session_id, "retry_count"),
                              consecutive_failures |->
                                  GetCounter(e.ss, wf.session_id, "consecutive_failures")]))
    /\ UNCHANGED <<question, session_id, ret>>

StepTransformQuery(outcomes) ==
    /\ pc = "stream" /\ node = "transform_query"
    /\ \E rewritten \in outcomes :
         LET r == safe_transform_query(session_states, wf, error_seq[wf.session_id] + 1,
                                       rewritten)
         IN  /\ Bookkeeping(wf.session_id, r.logged, FALSE)
             /\ LoopBody(r.ss, "transform_query", r.update, "retrieve", edge)
    /\ UNCHANGED <<question, session_id, ret>>

\* the graph runtime raises when asked for the next step
StreamRaises ==
    /\ pc = "stream"
    /\ InnerExcept(session_states, step_count, edge)
    /\ UNCHANGED <<error_seq, since_reset, question, session_id, ret>>

Init ==
    /\ session_states = NoSessions
    /\ error_seq = [s \in ChatSessionIds |-> 0]
    /\ since_reset = [s \in ChatSessionIds |-> 0]
    /\ pc = "idle"
    /\ question = Str("", 0, 0, FALSE)
    /\ session_id = "default"
    /\ depth = 0
    /\ step_count = 0
    /\ wf = IdleGraphState
    /\ node = "START"
    /\ edge = <<>>
    /\ result = <<>>
    /\ ret = <<>>

Serve ==
    \/ StepRetrieve(RetrieverOutcomes \ {Raise})
    \/ StepGradeDocuments(WebResults)
    \/ StepGenerate(RagOutcomes, FallbackOutcomes)
    \/ StepTransformQuery(RewriterOutcomes \ {Raise})
    \/ StreamRaises

Next ==
    \/ \E q \in Questions, sid \in SessionIds : Call(q, sid)
    \/ Serve

Spec == Init /\ [][Next]_vars

\* a request in service is a sequential program: it keeps taking steps
FairSpec == Spec /\ WF_vars(Serve)

(***************************************************************************)
(* The StateManager on its own: its methods called directly, in any order, *)
(* with any arguments, as its callers outside the workflow do              *)
(* (analyze_sentiment logs errors, get_sentiment_trend initializes).       *)
(***************************************************************************)
\* what the last call was and what it returned
Called(op, sid, error_type, retry, health) ==
    Ret([op |-> op, session_id |-> sid, error_type |-> error_type,
         retry |-> retry, health |-> health])

NoHealth == [healthy |-> TRUE, consecutive_failures |-> 0, retry_count |-> 0]

\* context patches a caller of update_state can pass
ContextPatches == { EmptyDict, [sentiment_trend |-> "neutral"] }

FacadeIdle ==
    /\ pc = "idle"
    /\ UNCHANGED <<pc, question, session_id, depth, step_count, wf, node, edge, result>>

SM_initialize_session(sid) ==
    /\ FacadeIdle
    /\ session_states' = initialize_session(session_states, sid)
    /\ ret' = Called("initialize_session", sid, "", FALSE, NoHealth)
    /\ UNCHANGED <<error_seq, since_reset>>

SM_update_state(sid, state, context) ==
    /\ FacadeIdle
    /\ session_states' = update_state(session_states, sid, state, context)
    /\ ret' = Called("update_state", sid, "", FALSE, NoHealth)
    /\ UNCHANGED <<error_seq, since_reset>>

SM_log_error(sid, error_type, node_name) ==
    /\ FacadeIdle
    /\ error_seq[sid] < MaxDirectErrors
    /\ session_states' = log_error(session_states, sid,
                                   MkError(error_type, node_name, error_seq[sid] + 1))
    /\ error_seq' = [error_seq EXCEPT ![sid] = @ + 1]
    /\ since_reset' = [since_reset EXCEPT ![sid] = @ + 1]
    /\ ret' = Called("log_error", sid, error_type, FALSE, NoHealth)

SM_should_retry(sid, error_type) ==
    /\ FacadeIdle
    /\ ret' = Called("should_retry", sid, error_type,
                     should_retry(session_states, sid, error_type), NoHealth)
    /\ session_states' = StoreAfterGet(session_states, sid)
    /\ UNCHANGED <<error_seq, since_reset>>

SM_increment_retry(sid) ==
    /\ FacadeIdle
    /\ GetCounter(session_states, sid, "retry_count") < MaxDirectRetries
    /\ session_states' = increment_retry(session_states, sid)
    /\ ret' = Called("increment_retry", sid, "", FALSE, NoHealth)
    /\ UNCHANGED <<error_seq, since_reset>>

SM_reset_failures(sid) ==
    /\ FacadeIdle
    /\ session_states' = reset_failures(session_states, sid)
    /\ since_reset' = [since_reset EXCEPT ![sid] = 0]
    /\ ret' = Called("reset_failures", sid, "", FALSE, NoHealth)
    /\ UNCHANGED error_seq

SM_get_session_health(sid) ==
    /\ FacadeIdle
    /\ ret' = Called("get_session_health", sid, "", FALSE,
                     get_session_health(session_states, sid))
    /\ session_states' = StoreAfterGet(session_states, sid)
    /\ UNCHANGED <<error_seq, since_reset>>

SMNext ==
    \E sid \in SessionIds :
        \/ SM_initialize_session(sid)
        \/ \E context \in ContextPatches : SM_update_state(sid, "SEARCHING", context)
        \/ SM_log_error(sid, "SYSTEM_ERROR", "sentiment_analysis")
        \/ \E error_type \in ErrorTypes : SM_should_retry(sid, error_type)
        \/ SM_increment_retry(sid)
        \/ SM_reset_failures(sid)
        \/ SM_get_session_health(sid)

SMSpec == Init /\ [][SMNext]_vars

(***************************************************************************)
(* The /chat endpoint: predict records the sentiment of the question, reads *)
(* the session's sentiment trend and asks generate_response; requests for   *)
(* several sessions arrive one after the other.                             *)
(***************************************************************************)
\* what the sentiment pipeline can answer: a label, or the call raising
SentimentOutcomes == { Raise, Ret("neutral") }

\* context['sentiment_history'] of a session dict
SentimentHistory(session) ==
    IF "sentiment_history" \in DOMAIN session.context
    THEN session.context.sentiment_history ELSE <<>>

\* the SentimentAnalysisResult of a successful analysis
AnalyzedSentiment(label) ==
    [label |-> label, score |-> "analyzed", analysis_model |-> "pipeline"]

\* the SentimentAnalysisResult returned by the handler of analyze_sentiment
FallbackSentiment == [label |-> "neutral", score |-> "0.5", analysis_model |-> "fallback"]

\* a plausible slip: the handler returns the fallback result without logging
analyze_sentiment_unlogged(ss, sid, text, analyzed, ts) ==
    LET s1 == initialize_session(ss, sid)
        history == Append(SentimentHistory(s1[sid]), Val(analyzed))
    IN  IF ~text.isstr \/ Raised(analyzed)
        THEN [ss |-> ss, result |-> FallbackSentiment, logged |-> 0]
        ELSE [ss |-> [s1 EXCEPT ![sid].context =
                         DictUpdate(@, [sentiment_history |->
                                          LastN(history, SentimentHistoryKept)])],
              result |-> AnalyzedSentiment(Val(analyzed)), logged |-> 0]

\* a plausible slip: the result is recorded under the default session
analyze_sentiment_default_session(ss, sid, text, analyzed, ts) ==
    LET s1 == initialize_session(ss, "default")
        history == Append(SentimentHistory(s1["default"]), Val(analyzed))
    IN  IF ~text.isstr \/ Raised(analyzed)
        THEN [ss |-> log_error(ss, sid, MkError("SYSTEM_ERROR", "sentiment_analysis", ts)),
              result |-> FallbackSentiment, logged |-> 1]
        ELSE [ss |-> [s1 EXCEPT !["default"].context =
                         DictUpdate(@, [sentiment_history |->
                                          LastN(history, SentimentHistoryKept)])],
              result |-> AnalyzedSentiment(Val(analyzed)), logged |-> 0]

\* analyze_sentiment(text, session_id): len(text) raises on a value that is not
\* a str; any failure is logged on the session as a SYSTEM_ERROR
analyze_sentiment(ss, sid, text, analyzed, ts) ==
    LET s1 == initialize_session(ss, sid)
        history == Append(SentimentHistory(s1[sid]), Val(analyzed))
    IN  IF ~text.isstr \/ Raised(analyzed)
        THEN [ss |-> log_error(ss, sid, MkError("SYSTEM_ERROR", "sentiment_analysis", ts)),
              result |-> FallbackSentiment, logged |-> 1]
        ELSE [ss |-> [s1 EXCEPT ![sid].context =
                         DictUpdate(@, [sentiment_history |->
                                          LastN(history, SentimentHistoryKept)])],
              result |-> AnalyzedSentiment(Val(analyzed)), logged |-> 0]

\* get_sentiment_trend(session_id) only reads, after initialize_session
get_sentiment_trend(ss, sid) == initialize_session(ss, sid)

\* request.json of a /chat request: a dict with or without "input" and "session_id"
ChatRequests ==
    LET inputs == { Str("What is Assessli?", 0, 17, FALSE), Str("", 0, 0, FALSE) }
    IN  { [input |-> q, session_id |-> sid] : q \in inputs, sid \in ChatSessionIds }
        \cup { [input |-> q] : q \in inputs }
        \cup { [session_id |-> sid] : sid \in ChatSessionIds }

\* what predict has answered, or that it has handed the question to generate_response
Answered(data, sid, status, body) ==
    Ret([op |-> "predict", data |-> data, session_id |-> sid, status |-> status,
         body |-> body])

\* data.get('session_id', 'default')
DataSessionIdOrDefault(data) ==
    IF "session_id" \in DOMAIN data THEN Ret(data.session_id) ELSE Ret("default")

\* the second argument of ask_question(data['input'], data['session_id']):
\* the subscript raises KeyError when the request has no session_id
AskQuestionSessionId(data) ==
    IF "session_id" \in DOMAIN data THEN Ret(data.session_id) ELSE Raise

\* predict() for the JSON request data, up to the first workflow step of the
\* generate_response call it makes
Predict(data, analyzed) ==
    /\ pc = "idle"
    /\ IF "input" \notin DOMAIN data
       THEN /\ ret' = Answered(data, "default", 400, "error")
            /\ UNCHANGED <<session_states, error_seq, since_reset, pc, question, session_id,
                           depth, step_count, wf, node, edge, result>>
       ELSE LET sid == Val(DataSessionIdOrDefault(data))
                a == analyze_sentiment(session_states, sid, data.input, analyzed,
                                       error_seq[sid] + 1)
                s2 == get_sentiment_trend(a.ss, sid)
                asked == AskQuestionSessionId(data)
            IN  /\ IF a.logged = 1
                   THEN error_seq[sid] < MaxChatErrors
                   ELSE Len(SentimentHistory(s2[sid])) <= MaxSentiments
                /\ error_seq' = [error_seq EXCEPT ![sid] = @ + a.logged]
                /\ since_reset' = [since_reset EXCEPT ![sid] = @ + a.logged]
                /\ IF Raised(asked)
                   THEN /\ session_states' = s2
                        /\ ret' = Answered(data, sid, 500, "error")
                        /\ UNCHANGED <<pc, question, session_id, depth, step_count, wf,
                                       node, edge, result>>
                   ELSE /\ question' = data.input
                        /\ session_id' = Val(asked)
                        /\ Begin(s2, data.input, Val(asked), 0)
                        /\ ret' = Answered(data, sid, 0, "forwarded")

\* the response of the last /chat request: <<>> while it is being served
Response ==
    IF ret = <<>> \/ Val(ret).op # "predict" THEN <<>>
    ELSE IF Val(ret).status # 0 THEN Ret([status |-> Val(ret).status, key |-> "error"])
    ELSE IF pc # "idle" THEN <<>>
    ELSE IF Val(result).kind = "return"
    THEN Ret([status |-> 200, key |-> "output", output |-> Val(result)])
    ELSE Ret([status |-> 500, key |-> "error"])

\* the workflow of a /chat request: its collaborators answer, and the stream can raise
ChatServe ==
    \/ StepRetrieve({Ret(<<"d1", "d2", "d3">>)})
    \/ StepGradeDocuments({<<>>})
    \/ StepGenerate({Ret(Str("answer", 0, 40, FALSE))}, {Raise})
    \/ StreamRaises

ChatNext ==
    \/ \E data \in ChatRequests, analyzed \in SentimentOutcomes : Predict(data, analyzed)
    \/ ChatServe

ChatSpec == Init /\ [][ChatNext]_vars

(***************************************************************************)
(* Two requests for one session served by two threads of the Flask server: *)
(* each is inside log_error, which takes no lock, and a thread can be      *)
(* switched out between any two of its reads and writes.  The dict and the  *)
(* list objects are told apart by tags: heap.stored is the dict that       *)
(* session_states holds for the session, heap.version the list that dict   *)
(* holds under 'errors'.  A write through a reference to another object    *)
(* does not reach the session.                                             *)
(***************************************************************************)
Threads == {1, 2}

\* the locals of a thread that enters log_error
EnterLogError ==
    [pc |-> "check", session_state |-> 0, errors |-> 0, loaded |-> 0, sliced |-> <<>>]

\* one step of thread t inside log_error(sid, error) on the store ss: the
\* store, the heap and the locals of the thread after it
log_error_step(ss, heap, th, t, sid, error) ==
    LET mine == th.session_state = heap.stored
        at(label) == [th EXCEPT !.pc = label]
    IN  CASE th.pc = "check" ->      \* 100: if session_id not in self.session_states
             [ss |-> ss, heap |-> heap,
              th |-> at(IF sid \in DOMAIN ss THEN "lookup" ELSE "create")]
          [] th.pc = "create" ->     \* 101-109: self.session_states[session_id] = {...}
             [ss |-> [s \in DOMAIN ss \cup {sid} |-> IF s = sid THEN DefaultSession ELSE ss[s]],
              heap |-> [stored |-> t, version |-> 0],
              th |-> at("lookup")]
          [] th.pc = "lookup" ->     \* 110: return self.session_states[session_id]
             [ss |-> ss, heap |-> heap,
              th |-> [th EXCEPT !.pc = "geterrors", !.session_state = heap.stored]]
          [] th.pc = "geterrors" ->  \* 121: session_state['errors']
             [ss |-> ss, heap |-> heap,
              th |-> [th EXCEPT !.pc = "append",
                                !.errors = IF mine THEN heap.version ELSE -1]]
          [] th.pc = "append" ->     \* 121: .append(error)
             [ss |-> IF mine /\ th.errors = heap.version
                     THEN [ss EXCEPT ![sid].errors = Append(@, error)] ELSE ss,
              heap |-> heap, th |-> at("load")]
          [] th.pc = "load" ->       \* 122: the read of session_state['consecutive_failures']
             [ss |-> ss, heap |-> heap,
              th |-> [th EXCEPT !.pc = "store",
                                !.loaded = IF mine THEN ss[sid].consecutive_failures ELSE 0]]
          [] th.pc = "store" ->      \* 122: the write of the sum
             [ss |-> IF mine THEN [ss EXCEPT ![sid].consecutive_failures = th.loaded + 1]
                     ELSE ss,
              heap |-> heap, th |-> at("len")]
          [] th.pc = "len" ->        \* 125: if len(session_state['errors']) > 5
             [ss |-> ss, heap |-> heap,
              th |-> at(IF mine /\ Len(ss[sid].errors) > MaxErrorsKept
                        THEN "slice" ELSE "done")]
          [] th.pc = "slice" ->      \* 126: session_state['errors'][-5:]
             [ss |-> ss, heap |-> heap,
              th |-> [th EXCEPT !.pc = "assign",
                                !.sliced = IF mine THEN LastN(ss[sid].errors, MaxErrorsKept)
                                           ELSE <<>>]]
          [] th.pc = "assign" ->     \* 126: session_state['errors'] = ...
             [ss |-> IF mine THEN [ss EXCEPT ![sid].errors = th.sliced] ELSE ss,
              heap |-> IF mine THEN [heap EXCEPT !.version = @ + 1] ELSE heap,
              th |-> at("done")]

\* two log_error calls on the session are in progress, or over
Racing == ret # <<>> /\ Val(ret).op = "log_error x2"

\* the error logged by thread t
RacedError(r, t) == MkError("SYSTEM_ERROR", "sentiment_analysis", r.first + t)

\* an earlier request logs an error, alone
EarlierError ==
    /\ ~Racing
    /\ \E sid \in SessionIds : SM_log_error(sid, "SYSTEM_ERROR", "sentiment_analysis")

\* two requests for one session enter log_error
EnterBoth ==
    /\ FacadeIdle
    /\ ~Racing
    /\ \E sid \in SessionIds :
         /\ ret' = Ret([op |-> "log_error x2", session_id |-> sid,
                        before |-> initialize_session(session_states, sid)[sid],
                        first |-> error_seq[sid],
                        heap |-> [stored |-> 0, version |-> 0],
                        threads |-> [t \in Threads |-> EnterLogError]])
         /\ error_seq' = [error_seq EXCEPT ![sid] = @ + 2]
         /\ since_reset' = [since_reset EXCEPT ![sid] = @ + 2]
    /\ UNCHANGED session_states

\* the scheduler lets one of the two threads take its next step
ThreadStep ==
    /\ FacadeIdle
    /\ Racing
    /\ \E t \in Threads :
         LET r == Val(ret)
             n == log_error_step(session_states, r.heap, r.threads[t], t, r.session_id,
                                 RacedError(r, t))
         IN  /\ r.threads[t].pc # "done"
             /\ session_states' = n.ss
             /\ ret' = Ret([r EXCEPT !.heap = n.heap, !.threads[t] = n.th])
    /\ UNCHANGED <<error_seq, since_reset>>

RaceNext ==
    \/ EarlierError
    \/ EnterBoth
    \/ ThreadStep

RaceSpec == Init /\ [][RaceNext]_vars

(***************************************************************************)
(* The webhook.  After predict has its answer it hands a payload to        *)
(* send_to_n8n_async, which starts a thread that posts the payload; the    *)
(* thread is the record of its loop index and of what its posts came to.   *)
(***************************************************************************)
\* what requests.post comes to: a response with a status code, or an exception
PostOutcomes == { Ret(200), Ret(500), Raise }

\* a plausible slip: no break after a post that was accepted
send_without_break(thread, posted) ==
    [thread EXCEPT !.posts = Append(@, posted),
                   !.attempt = @ + 1,
                   !.running = thread.attempt + 1 <= n8n_retries]

\* one pass of the loop of _send: "for attempt in range(retries + 1)", left by
\* break after a post answered with status 200
send(thread, posted) ==
    IF posted = Ret(200)
    THEN [thread EXCEPT !.posts = Append(@, posted), !.running = FALSE]
    ELSE [thread EXCEPT !.posts = Append(@, posted),
                        !.attempt = @ + 1,
                        !.running = thread.attempt + 1 <= n8n_retries]

\* send_to_n8n_async(payload): the thread is started only if the webhook is enabled
send_to_n8n_async(payload) ==
    [op |-> "send_to_n8n_async", payload |-> payload, attempt |-> 0, posts |-> <<>>,
     running |-> n8n_enabled]

\* the requests considered: one that is answered, one refused for its missing session_id
WebhookRequests ==
    { [input |-> Str("What is Assessli?", 0, 17, FALSE), session_id |-> "default"],
      [input |-> Str("What is Assessli?", 0, 17, FALSE)] }

\* the webhook thread of the last request is at work
Sending == ret # <<>> /\ Val(ret).op = "send_to_n8n_async" /\ Val(ret).running

\* predict takes the next request
WebhookPredict ==
    /\ ~Sending
    /\ \E data \in WebhookRequests, analyzed \in SentimentOutcomes : Predict(data, analyzed)

\* predict, once ask_question has returned: it builds the payload and starts the thread
StartSend ==
    /\ pc = "idle"
    /\ ret # <<>> /\ Val(ret).op = "predict" /\ Val(ret).status = 0
    /\ ret' = Ret(send_to_n8n_async([question |-> Val(ret).data.input,
                                     response |-> Val(result),
                                     session_id |-> Val(ret).session_id]))
    /\ UNCHANGED <<session_states, error_seq, since_reset, pc, question, session_id, depth,
                   step_count, wf, node, edge, result>>

\* the thread posts the payload once more
Post ==
    /\ Sending
    /\ \E posted \in PostOutcomes : ret' = Ret(send(Val(ret), posted))
    /\ UNCHANGED <<session_states, error_seq, since_reset, pc, question, session_id, depth,
                   step_count, wf, node, edge, result>>

WebhookNext ==
    \/ WebhookPredict
    \/ ChatServe
    \/ StartSend
    \/ Post

WebhookSpec == Init /\ [][WebhookNext]_vars

(***************************************************************************)
(* analyze_sentiment on its own: the only source of logged errors is the   *)
(* sentiment pipeline, and the session is asked for its health and whether *)
(* a retry is allowed.                                                     *)
(***************************************************************************)
\* the texts analyze_sentiment is called with: a str, or a JSON value that is not one
SentimentTexts == { Str("What is Assessli?", 0, 17, FALSE), NonStr("42") }

Call_analyze_sentiment ==
    /\ FacadeIdle
    /\ \E sid \in SessionIds, text \in SentimentTexts, analyzed \in SentimentOutcomes :
         LET a == analyze_sentiment(session_states, sid, text, analyzed, error_seq[sid] + 1)
         IN  /\ a.logged = 0 \/ error_seq[sid] < MaxSentimentErrors
             /\ session_states' = a.ss
             /\ error_seq' = [error_seq EXCEPT ![sid] = @ + a.logged]
             /\ since_reset' = [since_reset EXCEPT ![sid] = @ + a.logged]
             /\ ret' = Ret([op |-> "analyze_sentiment", session_id |-> sid, text |-> text,
                            analyzed |-> analyzed, result |-> a.result,
                            logged |-> a.logged])

SentimentNext ==
    \/ Call_analyze_sentiment
    \/ \E sid \in SessionIds :
         \/ \E error_type \in ErrorTypes : SM_should_retry(sid, error_type)
         \/ SM_get_session_health(sid)

SentimentSpec == Init /\ [][SentimentNext]_vars

(***************************************************************************)
(* Adaptive retrieval.  A document is the query it was found for and its    *)
(* rank among the hits; the vector store answers a search for n results     *)
(* with its first hits, at most n, or raises at the call sites listed in    *)
(* store.fails.  The language model's replies are the record llm.           *)
(***************************************************************************)
\* the call sites of vectorstore.similarity_search
SearchSites == {"branch", "branch_fallback", "else", "last"}

\* the vector stores considered: how many hits a query has, where a search raises
Stores ==
    { [hits |-> h, fails |-> f] :
        h \in {0, 2, 3},
        f \in { {}, {"branch"}, {"branch", "branch_fallback"}, {"branch_fallback"},
                {"branch_fallback", "last"}, {"else"}, {"else", "last"}, SearchSites } }

\* vectorstore.similarity_search(tag, n) called at site
Search(store, site, tag, n) ==
    IF site \in store.fails THEN Raise
    ELSE Ret([i \in 1 .. Min(n, store.hits) |-> [src |-> tag, rank |-> i]])

\* str.strip() on the classifier's replies
PyStrip(raw) ==
    CASE raw = " Analytical\n" -> "Analytical"
      [] raw = "Opinion " -> "Opinion"
      [] OTHER -> raw

\* what the classification chain can answer, or the chain raising
ClassifierReplies ==
    { Raise, Ret("Factual"), Ret(" Analytical\n"), Ret("Opinion "), Ret("Contextual"),
      Ret("factual"), Ret("Summary") }

Categories == {"Factual", "Analytical", "Opinion", "Contextual"}

\* a plausible slip: a failed classification is answered with another label
classify_query_default_contextual(reply) ==
    IF Raised(reply) THEN "Contextual" ELSE PyStrip(Val(reply))

classify_query(reply) ==
    IF Raised(reply) THEN "Factual" ELSE PyStrip(Val(reply))

\* relevance scores of n documents: one outcome of the ranking chain per document
Scores(mode, n) ==
    [i \in 1 .. n |->
        CASE mode = "uniform" -> Ret(7)
          [] mode = "rising" -> Ret(i)
          [] mode = "failing" -> IF i = 2 THEN Raise ELSE Ret(i)]

\* index lists the selection chain can answer (Python indices, from 0)
IndexLists ==
    { Raise, Ret(<<>>), Ret(<<0, 1>>), Ret(<<1, 0, 1>>), Ret(<<0, 1, 2, 3, 4>>),
      Ret(<<-1, 9>>), Ret(<<-9>>) }

\* the replies of the language model during one retrieval
LLMReplies ==
    { [text |-> t, parts |-> n, ranker |-> r, scores |-> m, indices |-> x] :
        t \in {"raise", "ok"}, n \in {0, 1, 3}, r \in {"raise", "ok"},
        m \in {"uniform", "rising", "failing"}, x \in IndexLists }

\* sorted(key=score, reverse=True): a stable sort of <<doc, score>> pairs
RECURSIVE InsertByScore(_, _)
InsertByScore(pair, sorted) ==
    IF sorted = <<>> THEN <<pair>>
    ELSE IF Head(sorted)[2] >= pair[2]
    THEN <<Head(sorted)>> \o InsertByScore(pair, Tail(sorted))
    ELSE <<pair>> \o sorted

RECURSIVE SortByScore(_)
SortByScore(pairs) ==
    IF pairs = <<>> THEN <<>>
    ELSE InsertByScore(pairs[Len(pairs)], SortByScore(SubSeq(pairs, 1, Len(pairs) - 1)))

\* [doc for doc, _ in ranked_docs[:k]] after the sort
TopK(docs, scores, k) ==
    LET ranked == SortByScore([i \in 1 .. Len(docs) |-> <<docs[i], scores[i]>>])
        top == FirstN(ranked, k)
    IN  [i \in 1 .. Len(top) |-> top[i][1]]

\* all_docs after "for q in queries: all_docs.extend(similarity_search(q, k=2))"
RECURSIVE Gather(_, _, _)
Gather(store, tag, n) ==
    IF n = 0 THEN Ret(<<>>)
    ELSE LET before == Gather(store, tag, n - 1)
             found == Search(store, "branch", <<tag, n>>, 2)
         IN  IF Raised(before) \/ Raised(found) THEN Raise
             ELSE Ret(Val(before) \o Val(found))

\* [all_docs[i] for i in selected_indices if i < len(all_docs)]: a negative index
\* counts from the end, and one below -len(all_docs) raises IndexError
RECURSIVE SelectByIndices(_, _)
SelectByIndices(all_docs, indices) ==
    IF indices = <<>> THEN Ret(<<>>)
    ELSE LET i == Head(indices)
             rest == SelectByIndices(all_docs, Tail(indices))
         IN  IF i >= Len(all_docs) THEN rest
             ELSE IF i < 0 - Len(all_docs) THEN Raise
             ELSE IF Raised(rest) THEN Raise
             ELSE Ret(<<all_docs[IF i >= 0 THEN i + 1 ELSE Len(all_docs) + i + 1]>>
                      \o Val(rest))

\* the handler of every retrieve_* method: similarity_search(query, k=k), unguarded
BranchFallback(store, k) == Search(store, "branch_fallback", "query", k)

retrieve_factual(store, k, llm) ==
    LET docs == Search(store, "branch", "enhanced", 2 * k)
    IN  IF llm.text = "raise" \/ Raised(docs) THEN BranchFallback(store, k)
        ELSE IF llm.ranker = "raise" THEN Ret(FirstN(Val(docs), k))
        ELSE LET scores == Scores(llm.scores, Len(Val(docs)))
             IN  Ret(TopK(Val(docs),
                          [i \in 1 .. Len(Val(docs)) |->
                              IF Raised(scores[i]) THEN 5 ELSE Val(scores[i])], k))

retrieve_analytical(store, k, llm) ==
    LET all_docs == Gather(store, "sub_query", llm.parts)
    IN  IF llm.text = "raise" \/ Raised(all_docs) \/ llm.ranker = "raise"
           \/ Raised(llm.indices)
        THEN BranchFallback(store, k)
        ELSE LET selected == SelectByIndices(Val(all_docs), Val(llm.indices))
             IN  IF Raised(selected) THEN BranchFallback(store, k) ELSE selected

\* content.split('\n') has at least one element
retrieve_opinion(store, k, llm) ==
    LET all_docs == Gather(store, "viewpoint", IF llm.parts = 0 THEN 1 ELSE llm.parts)
    IN  IF llm.text = "raise" \/ Raised(all_docs) \/ llm.ranker = "raise"
           \/ Raised(llm.indices)
        THEN BranchFallback(store, k)
        ELSE LET selected == SelectByIndices(Val(all_docs), Val(llm.indices))
             IN  IF Raised(selected) THEN BranchFallback(store, k) ELSE selected

retrieve_contextual(store, k, llm) ==
    LET docs == Search(store, "branch", "contextualized", 2 * k)
    IN  IF llm.text = "raise" \/ Raised(docs) \/ llm.ranker = "raise"
        THEN BranchFallback(store, k)
        ELSE LET scores == Scores(llm.scores, Len(Val(docs)))
             IN  IF \E i \in 1 .. Len(Val(docs)) : Raised(scores[i])
                 THEN BranchFallback(store, k)
                 ELSE Ret(TopK(Val(docs), [i \in 1 .. Len(Val(docs)) |-> Val(scores[i])], k))

\* the body of the try of adaptive_retrieve: the branch of the category
Dispatch(store, k, reply, llm) ==
    LET category == classify_query(reply)
    IN  CASE category = "Factual" -> retrieve_factual(store, k, llm)
          [] category = "Analytical" -> retrieve_analytical(store, k, llm)
          [] category = "Opinion" -> retrieve_opinion(store, k, llm)
          [] category = "Contextual" -> retrieve_contextual(store, k, llm)
          [] OTHER -> Search(store, "else", "query", k)

\* a plausible slip: no handler around the dispatch
adaptive_retrieve_unguarded(store, k, reply, llm) == Dispatch(store, k, reply, llm)

adaptive_retrieve(store, k, reply, llm) ==
    LET tried == Dispatch(store, k, reply, llm)
        again == Search(store, "last", "query", k)
    IN  IF ~Raised(tried) THEN tried
        ELSE IF ~Raised(again) THEN again
        ELSE Ret(<<>>)

\* the values of k the callers pass
Ks == {1, 2, 4}

Retrieved(op, store, k, reply, llm, category, outcome) ==
    Ret([op |-> op, store |-> store, k |-> k, reply |-> reply, llm |-> llm,
         category |-> category, outcome |-> outcome])

NoLLM == [text |-> "ok", parts |-> 0, ranker |-> "ok", scores |-> "uniform", indices |-> Raise]

\* one call of classify_query on a fresh system, with any reply of the chain
Call_classify_query ==
    /\ FacadeIdle
    /\ ret = <<>>
    /\ \E reply \in ClassifierReplies :
         ret' = Retrieved("classify_query", [hits |-> 0, fails |-> {}], 0, reply, NoLLM,
                          classify_query(reply), Raise)
    /\ UNCHANGED <<session_states, error_seq, since_reset>>

\* one call of adaptive_retrieve on a fresh system, with any store and any replies
Call_adaptive_retrieve ==
    /\ FacadeIdle
    /\ ret = <<>>
    /\ \E store \in Stores, k \in Ks, reply \in ClassifierReplies, llm \in LLMReplies :
         ret' = Retrieved("adaptive_retrieve", store, k, reply, llm, classify_query(reply),
                          adaptive_retrieve(store, k, reply, llm))
    /\ UNCHANGED <<session_states, error_seq, since_reset>>

RetrievalNext ==
    \/ Call_classify_query
    \/ Call_adaptive_retrieve

RetrievalSpec == Init /\ [][RetrievalNext]_vars

(***************************************************************************)
(* The workflow nodes called on their own, on any graph state and with any  *)
(* reply of their collaborators, the rewriter raising included.             *)
(***************************************************************************)
\* replies of the rewriter around the length limit: 5 characters, and 4 between blanks
NodeRewriterOutcomes ==
    RewriterOutcomes \cup { Ret(Str("where", 0, 5, FALSE)), Ret(Str("  who?  ", 4, 4, FALSE)) }

\* graph states a node can be handed
NodeStates ==
    { [question |-> q, session_id |-> "default", documents |-> d, generation |-> <<>>] :
        q \in { Str("What is Assessli?", 0, 17, FALSE), Str("Assessli pricing", 0, 16, FALSE) },
        d \in { <<>>, <<"d1">> } }

\* a direct call logs at most MaxNodeErrors errors for a session
NodeBookkeeping(sid, n, reset) ==
    /\ n = 0 \/ error_seq[sid] < MaxNodeErrors
    /\ Bookkeeping(sid, n, reset)

Call_safe_transform_query ==
    /\ FacadeIdle
    /\ \E state \in NodeStates, rewritten \in NodeRewriterOutcomes :
         LET r == safe_transform_query(session_states, state, error_seq[state.session_id] + 1,
                                       rewritten)
         IN  /\ NodeBookkeeping(state.session_id, r.logged, FALSE)
             /\ session_states' = r.ss
             /\ ret' = Ret([op |-> "safe_transform_query", state |-> state,
                            reply |-> rewritten, update |-> r.update, logged |-> r.logged])

Call_safe_retrieve ==
    /\ FacadeIdle
    /\ \E state \in NodeStates, retrieved \in RetrieverOutcomes :
         LET r == safe_retrieve(session_states, state, error_seq[state.session_id] + 1,
                                retrieved)
         IN  /\ NodeBookkeeping(state.session_id, r.logged, FALSE)
             /\ session_states' = r.ss
             /\ ret' = Ret([op |-> "safe_retrieve", state |-> state,
                            reply |-> retrieved, update |-> r.update, logged |-> r.logged])

\* binary_score is a str: graders can answer outside "yes" / "no"
NodeGraderOutcomes == GraderOutcomes \cup { Ret("Yes") }

\* generations the edge can be handed: a rag answer, the canned texts of
\* safe_generate, a fallback content that is empty or not a str
EdgeGenerations ==
    { Str("answer", 0, 40, FALSE), GEN_NO_DOCUMENTS, GEN_FALLBACK,
      Str("", 0, 0, FALSE), NonStr("content blocks") }

\* graph states after the generate node
EdgeStates ==
    { [question |-> Str("What is Assessli?", 0, 17, FALSE), session_id |-> "default",
       documents |-> <<"d1">>, generation |-> Ret(g)] : g \in EdgeGenerations }

\* one grader outcome per document: those of GradeVectors, every grader
\* answering "Yes", and raise / no / yes in turn
NodeGradeVectors(n) ==
    GradeVectors(n)
    \cup { [i \in 1 .. n |-> Ret("Yes")] }
    \cup { [i \in 1 .. n |-> IF i = 1 THEN Raise ELSE IF i = 2 THEN Ret("no") ELSE Ret("yes")] }

\* graph states after the retrieve node
GradeStates ==
    { [question |-> Str("What is Assessli?", 0, 17, FALSE), session_id |-> "default",
       documents |-> d, generation |-> <<>>] : d \in { <<>>, <<"d1", "d2", "d3">> } }

Call_safe_grade_documents ==
    /\ FacadeIdle
    /\ \E state \in GradeStates, web \in WebResults :
       \E grades \in NodeGradeVectors(Len(state.documents)) :
         LET r == safe_grade_documents(session_states, state, error_seq[state.session_id] + 1,
                                       grades, web)
         IN  /\ NodeBookkeeping(state.session_id, r.logged, FALSE)
             /\ session_states' = r.ss
             /\ ret' = Ret([op |-> "safe_grade_documents", state |-> state,
                            grades |-> grades, web |-> web, update |-> r.update,
                            logged |-> r.logged])

Call_safe_generate ==
    /\ FacadeIdle
    /\ \E state \in NodeStates, rag \in RagOutcomes :
       \E fallback \in IF Raised(rag) THEN FallbackOutcomes ELSE {Raise} :
         LET r == safe_generate(session_states, state, error_seq[state.session_id] + 1,
                                rag, fallback)
         IN  /\ NodeBookkeeping(state.session_id, r.logged, FALSE)
             /\ session_states' = r.ss
             /\ ret' = Ret([op |-> "safe_generate", state |-> state, rag |-> rag,
                            fallback |-> fallback, update |-> r.update, logged |-> r.logged])

Call_grade_generation ==
    /\ FacadeIdle
    /\ \E state \in EdgeStates, grounded \in NodeGraderOutcomes, answers \in NodeGraderOutcomes :
         LET e == grade_generation_v_documents_and_question(session_states, state,
                                                            grounded, answers)
         IN  /\ Bookkeeping(state.session_id, 0, e.reset)
             /\ session_states' = e.ss
             /\ ret' = Ret([op |-> "grade_generation_v_documents_and_question",
                            state |-> state, grounded |-> grounded, answers |-> answers,
                            verdict |-> e.verdict, consulted |-> e.consulted,
                            reset |-> e.reset])

NodeNext ==
    \/ Call_safe_retrieve
    \/ Call_safe_grade_documents
    \/ Call_safe_generate
    \/ Call_safe_transform_query
    \/ Call_grade_generation

NodeSpec == Init /\ [][NodeNext]_vars

(***************************************************************************)
(* The compiled graph on its own: app.stream(inputs) consumed output by     *)
(* output by a caller that goes on past the generate node, as far as it     *)
(* likes.  One step runs the scheduled node, merges its update into the     *)
(* graph state and schedules the node its outgoing edge names.              *)
(***************************************************************************)
GraphQuestions == { Str("What is Assessli?", 0, 17, FALSE) }

\* the caller starts a run of the graph, on a fresh system
GraphCall ==
    /\ pc = "idle"
    /\ node = "START"
    /\ \E q \in GraphQuestions, sid \in SessionIds :
         /\ question' = q
         /\ session_id' = sid
         /\ wf' = InitialGraphState(q, sid)
    /\ pc' = "graph"
    /\ node' = "retrieve"
    /\ step_count' = 0
    /\ edge' = <<>>
    /\ result' = <<>>
    /\ UNCHANGED <<session_states, error_seq, since_reset, depth, ret>>

\* the runtime after a node: the update is merged, the next node scheduled
GraphStep(ss, update, next, ev) ==
    /\ session_states' = ss
    /\ wf' = DictUpdate(wf, update)
    /\ node' = next
    /\ pc' = IF next = "END" THEN "idle" ELSE "graph"
    /\ step_count' = step_count + 1
    /\ edge' = ev
    /\ UNCHANGED <<question, session_id, depth, result, ret>>

GraphRunning(name) == pc = "graph" /\ node = name /\ step_count < MaxGraphSteps

GraphRetrieve ==
    /\ GraphRunning("retrieve")
    /\ \E retrieved \in RetrieverOutcomes :
         LET r == safe_retrieve(session_states, wf, error_seq[wf.session_id] + 1, retrieved)
         IN  /\ Bookkeeping(wf.session_id, r.logged, FALSE)
             /\ GraphStep(r.ss, r.update, "grade_documents", edge)

GraphGradeDocuments ==
    /\ GraphRunning("grade_documents")
    /\ \E grades \in GradeVectors(Len(wf.documents)), web \in WebResults :
         LET r == safe_grade_documents(session_states, wf, error_seq[wf.session_id] + 1,
                                       grades, web)
         IN  /\ Bookkeeping(wf.session_id, r.logged, FALSE)
             /\ GraphStep(r.ss, r.update, decide_to_generate(DictUpdate(wf, r.update)), edge)

GraphGenerate ==
    /\ GraphRunning("generate")
    /\ \E rag \in RagOutcomes, grounded \in GraderOutcomes, answers \in GraderOutcomes :
       \E fallback \in IF Raised(rag) THEN FallbackOutcomes ELSE {Raise} :
         LET r == safe_generate(session_states, wf, error_seq[wf.session_id] + 1, rag, fallback)
             e == grade_generation_v_documents_and_question(
                      r.ss, DictUpdate(wf, r.update), grounded, answers)
         IN  /\ Bookkeeping(wf.session_id, r.logged, e.reset)
             /\ GraphStep(e.ss, r.update, GenerateEdge(e.verdict),
                          Ret([verdict |-> e.verdict,
                               generation |-> Val(r.update.generation),
                               retry_count |-> GetCounter(e.ss, wf.session_id, "retry_count"),
                               consecutive_failures |->
                                   GetCounter(e.ss, wf.session_id, "consecutive_failures")]))

GraphTransformQuery ==
    /\ GraphRunning("transform_query")
    /\ \E rewritten \in RewriterOutcomes :
         LET r == safe_transform_query(session_states, wf, error_seq[wf.session_id] + 1,
                                       rewritten)
         IN  /\ Bookkeeping(wf.session_id, r.logged, FALSE)
             /\ GraphStep(r.ss, r.update, "retrieve", edge)

\* the caller stops iterating over the stream
GraphStop ==
    /\ pc = "graph"
    /\ pc' = "idle"
    /\ UNCHANGED <<session_states, error_seq, since_reset, question, session_id, depth,
                   step_count, wf, node, edge, result, ret>>

GraphNext ==
    \/ GraphCall
    \/ GraphRetrieve
    \/ GraphGradeDocuments
    \/ GraphGenerate
    \/ GraphTransformQuery
    \/ GraphStop

GraphSpec == Init /\ [][GraphNext]_vars

(***************************************************************************)
(* Properties.                                                             *)
(***************************************************************************)
Counter(sid, key) == GetCounter(session_states, sid, key)

\* C1: in one generate_response invocation the number of workflow steps
\* consumed from the stream never exceeds 10.
C1_StepsWithinCap == step_count <= 10

\* C2: every generate_response call eventually returns: whatever the
\* collaborators return or raise, the workflow loop and the retry recursion
\* end after finitely many steps.
C2_CallReturns == (pc # "idle") ~> (pc = "idle")

\* a call has returned after three recursive retries and a workflow run that
\* was cut off by the step ceiling
C2_Witness ==
    /\ pc = "idle"
    /\ result # <<>>
    /\ Val(result).notices = 3
    /\ step_count > 10

\* C3: generate_response never raises: every call, whatever fails, ends by
\* returning a text string.
C3_NeverRaises ==
    result # <<>> => /\ Val(result).kind = "return"
                     /\ Val(result).text.isstr

\* a call whose question made the prologue raise has returned the text of the
\* outermost handler
C3_Witness ==
    /\ pc = "idle"
    /\ result # <<>>
    /\ ~question.isstr
    /\ Val(result).text = MSG_TECHNICAL

\* C4 as stated: after 5 log_error calls with no reset_failures in between the
\* session is reported unhealthy, and every later generate_response call for it,
\* whatever the question, returns the "start a new conversation" message
\* without running a workflow node.
C4_UnhealthyRefusedAnyQuestion ==
    [][ \A sid \in SessionIds :
          since_reset[sid] >= 5 =>
            /\ ~get_session_health(session_states, sid).healthy
            /\ (pc = "idle" /\ session_id' = sid) =>
                 /\ pc' = "idle"
                 /\ step_count' = 0
                 /\ result' = Ret([kind |-> "return", notices |-> 0, text |-> MSG_UNHEALTHY])
      ]_vars

\* C4 amended: after 5 log_error calls with no reset_failures in between the
\* session is reported unhealthy, and every later generate_response call for it
\* runs no workflow node and leaves the session as it is; it returns the "start
\* a new conversation" message when the question is a string of at least 3
\* characters after trimming, and the clarification message when the question
\* is a shorter string.
C4_UnhealthyRefused ==
    [][ \A sid \in SessionIds :
          since_reset[sid] >= 5 =>
            /\ ~get_session_health(session_states, sid).healthy
            /\ (pc = "idle" /\ session_id' = sid) =>
                 /\ pc' = "idle"
                 /\ step_count' = 0
                 /\ session_states' = session_states
                 /\ question'.isstr =>
                      result' = Ret([kind |-> "return", notices |-> 0,
                                     text |-> IF StripLen(question') >= 3
                                              THEN MSG_UNHEALTHY ELSE MSG_CLARIFY])
      ]_vars

\* a call on a session with 5 logged failures has been refused
C4_Witness ==
    /\ pc = "idle"
    /\ result # <<>>
    /\ since_reset[session_id] >= 5
    /\ Val(result).text = MSG_UNHEALTHY

\* C5: get_session_health reports healthy exactly when the stored
\* consecutive_failures is below 5, reports the stored counters, and for a
\* session never referenced reports healthy, 0 failures and 0 retries.
C5_HealthReport ==
    (ret # <<>> /\ Val(ret).op = "get_session_health") =>
        LET sid == Val(ret).session_id
            health == Val(ret).health
        IN  IF sid \in DOMAIN session_states
            THEN /\ health.healthy <=> session_states[sid].consecutive_failures < 5
                 /\ health.consecutive_failures = session_states[sid].consecutive_failures
                 /\ health.retry_count = session_states[sid].retry_count
            ELSE health = [healthy |-> TRUE, consecutive_failures |-> 0, retry_count |-> 0]

\* the health of a session with exactly 5 failures and some retries was asked
C5_Witness ==
    /\ ret # <<>>
    /\ Val(ret).op = "get_session_health"
    /\ Val(ret).health = [healthy |-> FALSE, consecutive_failures |-> 5, retry_count |-> 2]

\* C6: a session's error list holds at most 5 entries, and they are exactly the
\* most recently logged errors in logging order.
C6_RecentErrorsKept ==
    \A sid \in DOMAIN session_states :
        LET errors == session_states[sid].errors
        IN  /\ Len(errors) = Min(5, error_seq[sid])
            /\ \A i \in 1 .. Len(errors) :
                 errors[i].timestamp = error_seq[sid] - Len(errors) + i

\* a sixth error has been logged and the first one is gone
C6_Witness ==
    /\ "default" \in DOMAIN session_states
    /\ error_seq["default"] = 6
    /\ Len(session_states["default"].errors) = 5
    /\ session_states["default"].errors[1].timestamp = 2

\* C7: whenever the generation edge answers "useful", the session's retry_count
\* and consecutive_failures are both 0 right after it, on every path.
C7_UsefulResetsCounters ==
    (edge # <<>> /\ Val(edge).verdict = "useful") =>
        /\ Val(edge).retry_count = 0
        /\ Val(edge).consecutive_failures = 0

\* C8: should_retry answers false for VALIDATION_ERROR whatever the counters
\* are, also for a session that does not exist.
C8_ValidationNeverRetried ==
    (ret # <<>> /\ Val(ret).op = "should_retry" /\ Val(ret).error_type = "VALIDATION_ERROR")
        => Val(ret).retry = FALSE

\* should_retry was asked about a validation error of a session that does not
\* exist
C8_Witness ==
    /\ ret # <<>>
    /\ Val(ret).op = "should_retry"
    /\ Val(ret).error_type = "VALIDATION_ERROR"
    /\ Val(ret).session_id \notin DOMAIN session_states

\* C9: for every other error kind should_retry answers false when
\* consecutive_failures is 3 or more, and otherwise answers true exactly when
\* retry_count is below 3.
C9_RetryDecision ==
    (ret # <<>> /\ Val(ret).op = "should_retry" /\ Val(ret).error_type # "VALIDATION_ERROR")
        => LET sid == Val(ret).session_id
           IN  IF Counter(sid, "consecutive_failures") >= 3
               THEN Val(ret).retry = FALSE
               ELSE Val(ret).retry <=> Counter(sid, "retry_count") < 3

\* should_retry refused a session with 3 failures that had retries left
C9_Witness ==
    /\ ret # <<>>
    /\ Val(ret).op = "should_retry"
    /\ Val(ret).error_type = "NETWORK_ERROR"
    /\ Counter(Val(ret).session_id, "consecutive_failures") = 3
    /\ Counter(Val(ret).session_id, "retry_count") = 1
    /\ Val(ret).retry = FALSE

\* C10: one outer generate_response call makes at most 3 recursive retries; a
\* retry is made only when should_retry permits and raises retry_count by one,
\* and the max-retries message is returned, with no further workflow run and
\* retry_count as it was, only when should_retry refuses.
C10_RetryCap ==
    [][ /\ depth' <= 3
        /\ depth' = depth + 1 =>
             /\ Counter(session_id, "retry_count") < 3
             /\ Counter(session_id, "consecutive_failures") < 3
             /\ Counter(session_id, "retry_count")' = Counter(session_id, "retry_count") + 1
        /\ (pc = "stream" /\ result' # <<>> /\ Val(result').text = MSG_MAX_RETRIES) =>
             /\ \/ Counter(session_id, "retry_count") >= 3
                \/ Counter(session_id, "consecutive_failures") >= 3
             /\ pc' = "idle"
             /\ Counter(session_id, "retry_count")' = Counter(session_id, "retry_count")
      ]_vars

\* a call gave up after its third recursive retry failed too
C10_Witness ==
    /\ pc = "idle"
    /\ result # <<>>
    /\ Val(result).notices = 3
    /\ Val(result).text = MSG_MAX_RETRIES

\* the error list of a session, empty for a session that does not exist
Errors(sid) == IF sid \in DOMAIN session_states THEN session_states[sid].errors ELSE <<>>

\* the phase of a session
Phase(sid) == IF sid \in DOMAIN session_states THEN session_states[sid].state ELSE None

\* the step just taken consumed one workflow step of the running frame
WorkflowStepTaken == pc = "stream" /\ step_count' = step_count + 1

\* C11: for an empty question or one of fewer than 3 characters after trimming,
\* generate_response returns the clarification message at once: no workflow
\* step is run and the session's retry_count, consecutive_failures and error
\* list stay as they were.
C11_ShortQuestionRefused ==
    [][ \A sid \in SessionIds :
          (pc = "idle" /\ session_id' = sid /\ question'.isstr /\ StripLen(question') < 3) =>
            /\ pc' = "idle"
            /\ step_count' = 0
            /\ result' = Ret([kind |-> "return", notices |-> 0, text |-> MSG_CLARIFY])
            /\ Counter(sid, "retry_count")' = Counter(sid, "retry_count")
            /\ Counter(sid, "consecutive_failures")' = Counter(sid, "consecutive_failures")
            /\ Errors(sid)' = Errors(sid)
            /\ error_seq' = error_seq
      ]_vars

\* a question of two characters between blanks was refused on a session that
\* has failures and retries on record
C11_Witness ==
    /\ pc = "idle"
    /\ result # <<>>
    /\ Val(result).text = MSG_CLARIFY
    /\ question.isstr /\ PyLen(question) >= 3 /\ StripLen(question) < 3
    /\ Counter(session_id, "consecutive_failures") > 0
    /\ Counter(session_id, "retry_count") > 0
    /\ Errors(session_id) # <<>>

\* C12: when the grading step leaves no documents (retrieval and web search
\* both returned none), the workflow goes on to the Generate node with the
\* empty document list.
C12_EmptyDocumentsReachGenerate ==
    [][ (WorkflowStepTaken /\ node = "grade_documents" /\ pc' = "stream"
         /\ wf'.documents = <<>>) => node' = "generate"
      ]_vars

C14_ResultByFinalGeneration ==
    [][ /\ (WorkflowStepTaken /\ node = "generate" /\ edge' # <<>>
            /\ Val(edge').generation.isstr) =>
              LET generation == Val(edge').generation
              IN  /\ pc' = "idle"
                  /\ IF StripLen(generation) >= 10
                     THEN /\ Val(result').text = generation
                          /\ Phase(session_id)' = "COMPLETED"
                     ELSE /\ Val(result').text = MSG_TOO_SHORT
                          /\ Phase(session_id)' = "GENERATING"
        /\ (WorkflowStepTaken /\ node # "generate" /\ pc' = "idle") =>
              /\ Val(result').text = MSG_TROUBLE
              /\ Phase(session_id)' \in {"RETRIEVING", "GRADING", "TRANSFORMING"}
      ]_vars

\* a call returned its generation and left the session COMPLETED
C14_Witness ==
    /\ pc = "idle"
    /\ result # <<>>
    /\ edge # <<>>
    /\ Val(edge).generation.isstr
    /\ StripLen(Val(edge).generation) >= 10
    /\ Val(result).text = Val(edge).generation
    /\ Phase(session_id) = "COMPLETED"

\* the session a step acts for: the one of the request in service, or the one
\* named by the request that arrives
ActingSession == IF pc = "stream" THEN session_id ELSE Val(ret').session_id

C16_SessionIdOptional ==
    (/\ ret # <<>>
     /\ Val(ret).op = "predict"
     /\ "input" \in DOMAIN Val(ret).data
     /\ "session_id" \notin DOMAIN Val(ret).data)
        => /\ Val(ret).session_id = "default"
           /\ pc # "idle" => session_id = "default"
           /\ Response # <<>> => /\ Val(Response).status = 200
                                 /\ Val(Response).key = "output"

\* the last call was adaptive_retrieve
Retrieving == ret # <<>> /\ Val(ret).op = "adaptive_retrieve"

\* what a plain similarity search for k results answers when it does not raise
PlainResults(store, k) ==
    Ret([i \in 1 .. Min(k, store.hits) |-> [src |-> "query", rank |-> i]])

\* C17: adaptive_retrieve never raises to its caller: when the branch of the
\* category raises (its own similarity-search fallback included), the result is
\* that of a plain similarity search for k results, and the empty sequence when
\* that search raises too.
C17_RetrievalNeverRaises ==
    Retrieving =>
        LET r == Val(ret)
        IN  /\ ~Raised(r.outcome)
            /\ Raised(Dispatch(r.store, r.k, r.reply, r.llm)) =>
                 r.outcome = IF "last" \in r.store.fails THEN Ret(<<>>)
                             ELSE PlainResults(r.store, r.k)

\* the analytical branch raised IndexError on the index -9, its fallback search
\* and the last search raised as well, and the caller got the empty sequence
C17_Witness ==
    /\ Retrieving
    /\ Val(ret).category = "Analytical"
    /\ Val(ret).llm.text = "ok" /\ Val(ret).llm.ranker = "ok" /\ Val(ret).llm.parts = 1
    /\ Val(ret).llm.indices = Ret(<<-9>>)
    /\ Val(ret).store = [hits |-> 2, fails |-> {"branch_fallback", "last"}]
    /\ Val(ret).outcome = Ret(<<>>)

\* C18: for every category and every reply of the language model,
\* adaptive_retrieve(query, k) returns at most k chunks.
C18_AtMostKChunks ==
    Retrieving => Len(Val(Val(ret).outcome)) <= Val(ret).k

\* C19: classify_query answers "Factual" whenever the classification chain
\* raises, and for a label outside the four categories adaptive_retrieve
\* answers with the plain similarity search for k results (empty when the
\* search fails), raising nothing and logging no error.
C19_ClassificationFallbacks ==
    /\ (ret # <<>> /\ Val(ret).op \in {"classify_query", "adaptive_retrieve"}
        /\ Raised(Val(ret).reply)) => Val(ret).category = "Factual"
    /\ (Retrieving /\ ~Raised(Val(ret).reply)
        /\ PyStrip(Val(Val(ret).reply)) \notin {"Factual", "Analytical", "Opinion", "Contextual"}) =>
           LET r == Val(ret)
           IN  /\ r.outcome = IF {"else", "last"} \subseteq r.store.fails THEN Ret(<<>>)
                              ELSE PlainResults(r.store, r.k)
               /\ session_states = NoSessions
               /\ \A s \in ChatSessionIds : error_seq[s] = 0

\* a query labelled "factual" in lower case got the first 2 of 3 plain hits
C19_Witness ==
    /\ Retrieving
    /\ Val(ret).reply = Ret("factual")
    /\ Val(ret).store = [hits |-> 3, fails |-> {}]
    /\ Val(ret).k = 2
    /\ Len(Val(Val(ret).outcome)) = 2

\* C20: the query-transformation step hands the original question on whenever
\* the rewriter raises, answers the empty text, or answers a text of fewer than
\* 5 characters after trimming; otherwise it hands on the rewriter's text.
C20_RewriteFallback ==
    (ret # <<>> /\ Val(ret).op = "safe_transform_query") =>
        LET r == Val(ret)
        IN  r.update.question =
                IF Raised(r.reply) THEN r.state.question
                ELSE IF PyLen(Val(r.reply)) = 0 \/ StripLen(Val(r.reply)) < 5
                THEN r.state.question
                ELSE Val(r.reply)

\* a rewrite of 8 characters, 4 of them after trimming, was dropped for the
\* original question
C20_Witness ==
    /\ ret # <<>>
    /\ Val(ret).op = "safe_transform_query"
    /\ ~Raised(Val(ret).reply)
    /\ PyLen(Val(Val(ret).reply)) = 8
    /\ StripLen(Val(Val(ret).reply)) = 4
    /\ Val(ret).update.question = Val(ret).state.question

\* the last call was the generation edge
EdgeCalled == ret # <<>> /\ Val(ret).op = "grade_generation_v_documents_and_question"

\* C21: the verdict of the generation edge is computed in this order: a
\* generation text containing a marker phrase gives "not useful" and no grader
\* is invoked; otherwise the groundedness grader is invoked and its grade "no"
\* gives "not supported"; otherwise the answer grader is invoked and its grade
\* "no" gives "not useful"; otherwise the verdict is "useful".  A grader that
\* raises counts as passing and the evaluation goes on.  (A generation that is
\* not a str gets "useful" with no grader invoked.)
C21_VerdictOrder ==
    EdgeCalled =>
        LET r == Val(ret)
            generation == Val(r.state.generation)
        IN  IF ~generation.isstr
            THEN r.verdict = "useful" /\ r.consulted = <<>>
            ELSE IF generation.marker
            THEN r.verdict = "not useful" /\ r.consulted = <<>>
            ELSE IF r.grounded = Ret("no")
            THEN r.verdict = "not supported" /\ r.consulted = <<"hallucination_grader">>
            ELSE /\ r.consulted = <<"hallucination_grader", "answer_grader">>
                 /\ r.verdict = IF r.answers = Ret("no") THEN "not useful" ELSE "useful"

\* the groundedness grader raised on a marker-free answer, the answer grader
\* was still asked, and its "no" made the verdict "not useful"
C21_Witness ==
    /\ EdgeCalled
    /\ Val(Val(ret).state.generation) = Str("answer", 0, 40, FALSE)
    /\ Val(ret).grounded = Raise
    /\ Val(ret).answers = Ret("no")
    /\ Val(ret).verdict = "not useful"

\* a step of a run of the graph on its own
GraphStepTaken == pc = "graph" /\ step_count' = step_count + 1

\* C22: the node that follows Generate is fixed by the verdict of the
\* generation edge: "not supported" schedules Generate again with the same
\* question and the same documents, "not useful" schedules TransformQuery,
\* "useful" ends the run; nothing else follows Generate.
C22_GenerateSuccessor ==
    [][ (GraphStepTaken /\ node = "generate") =>
            /\ edge' # <<>>
            /\ LET v == Val(edge').verdict
               IN  CASE v = "not supported" ->
                            /\ pc' = "graph" /\ node' = "generate"
                            /\ wf'.question = wf.question
                            /\ wf'.documents = wf.documents
                     [] v = "not useful" -> pc' = "graph" /\ node' = "transform_query"
                     [] v = "useful" -> pc' = "idle" /\ node' = "END"
                     [] OTHER -> FALSE
      ]_vars

\* a generation judged "not supported" sent the run back to Generate, which is
\* scheduled for the second time on the documents that were graded
C22_Witness ==
    /\ pc = "graph"
    /\ node = "generate"
    /\ edge # <<>>
    /\ Val(edge).verdict = "not supported"
    /\ step_count = 3
    /\ wf.documents = <<"d2", "d3">>

\* C23: after GradeDocuments the graph schedules TransformQuery exactly when
\* the documents the step emitted are empty, and Generate otherwise; Retrieve
\* is always followed by GradeDocuments; TransformQuery is always followed by
\* Retrieve, which is handed the question TransformQuery emitted: the original
\* one or the rewriter's text.
C23_Routing ==
    [][ GraphStepTaken =>
            /\ node = "retrieve" => (pc' = "graph" /\ node' = "grade_documents")
            /\ node = "grade_documents" =>
                   /\ pc' = "graph"
                   /\ node' = IF wf'.documents = <<>> THEN "transform_query" ELSE "generate"
            /\ node = "transform_query" =>
                   /\ pc' = "graph" /\ node' = "retrieve"
                   /\ wf'.question \in {wf.question}
                                        \cup { Val(o) : o \in RewriterOutcomes \ {Raise} }
      ]_vars

\* retrieval and web search found nothing, the grading step emitted no
\* documents, TransformQuery ran and Retrieve is scheduled with the rewritten
\* question
C23_Witness ==
    /\ pc = "graph"
    /\ node = "retrieve"
    /\ step_count = 3
    /\ wf.documents = <<>>
    /\ wf.question = Str("rewritten question", 0, 18, FALSE)

\* the step is a run of the generate node whose edge answered "useful"
UsefulVerdictStep ==
    /\ WorkflowStepTaken
    /\ node = "generate"
    /\ edge' # <<>>
    /\ Val(edge').verdict = "useful"

\* C24: only the "useful" verdict of the generation edge lowers a session's
\* consecutive_failures or retry_count: every other step leaves each of the
\* two counters unchanged or raises it by one.
C24_ResetOnlyOnUseful ==
    [][ \A sid \in SessionIds :
        \A key \in {"consecutive_failures", "retry_count"} :
            \/ UsefulVerdictStep
            \/ GetCounter(session_states', sid, key) = Counter(sid, key)
            \/ GetCounter(session_states', sid, key) = Counter(sid, key) + 1
      ]_vars

\* a call ended on a "useful" verdict that cleared the counters of a session
\* with logged errors
C24_Witness ==
    /\ pc = "idle"
    /\ edge # <<>>
    /\ Val(edge).verdict = "useful"
    /\ Errors("default") # <<>>
    /\ error_seq["default"] > 0
    /\ since_reset["default"] = 0
    /\ Counter("default", "consecutive_failures") = 0
    /\ Counter("default", "retry_count") = 0

\* the step is a direct call of the node op
NodeCallStep(op) == pc = "idle" /\ ret' # <<>> /\ Val(ret').op = op

\* C25: relevance grading fails open.  The grading step drops a document
\* only when its grader call returned a verdict other than "yes": while some
\* document is kept, the documents emitted are exactly those whose grader
\* answered "yes" or raised, in their order, whatever happened to the
\* documents before them; and the step logs no error for the session.
C25_GradingFailsOpen ==
    [][ NodeCallStep("safe_grade_documents") =>
            LET r == Val(ret')
                docs == r.state.documents
                kept == { i \in 1 .. Len(docs) :
                            r.grades[i] = Raise \/ r.grades[i] = Ret("yes") }
                emitted == r.update.documents
            IN  /\ \A i \in kept : \E j \in 1 .. Len(emitted) : emitted[j] = docs[i]
                /\ kept # {} =>
                     emitted = SelectSeq(docs, LAMBDA d : \E i \in kept : docs[i] = d)
                /\ \A sid \in SessionIds :
                       /\ Errors(sid)' = Errors(sid)
                       /\ Counter(sid, "consecutive_failures")'
                              = Counter(sid, "consecutive_failures")
      ]_vars

\* the grader raised on the first document, answered "no" on the second and
\* "yes" on the third: the first and the third were emitted
C25_Witness ==
    /\ ret # <<>>
    /\ Val(ret).op = "safe_grade_documents"
    /\ Val(ret).grades = <<Raise, Ret("no"), Ret("yes")>>
    /\ Val(ret).update.documents = <<"d1", "d3">>
    /\ Errors("default") = <<>>

\* the four nodes, by the methods registered for them
NodeOps == {"safe_retrieve", "safe_grade_documents", "safe_generate", "safe_transform_query"}

\* node= of the SystemError a node's handler builds
NodeName(op) ==
    CASE op = "safe_retrieve" -> "retrieve"
      [] op = "safe_grade_documents" -> "grade_documents"
      [] op = "safe_generate" -> "generate"
      [] op = "safe_transform_query" -> "transform_query"

\* error_type= of the SystemError a node's handler builds
NodeErrorKind(op) ==
    CASE op = "safe_retrieve" -> "RETRIEVAL_ERROR"
      [] op = "safe_grade_documents" -> "GRADING_ERROR"
      [] op = "safe_generate" -> "GENERATION_ERROR"
      [] op = "safe_transform_query" -> "SYSTEM_ERROR"

\* a collaborator raised inside the node call r
CollaboratorRaised(r) ==
    CASE r.op = "safe_retrieve" -> Raised(r.reply)
      [] r.op = "safe_grade_documents" -> \E i \in DOMAIN r.grades : Raised(r.grades[i])
      [] r.op = "safe_generate" -> r.state.documents # <<>> /\ Raised(r.rag)
      [] r.op = "safe_transform_query" -> Raised(r.reply)

\* an exception reached the outermost handler of the node call r
HandlerReached(r) ==
    CASE r.op = "safe_retrieve" -> Raised(r.reply)
      [] r.op = "safe_grade_documents" -> FALSE
      [] r.op = "safe_generate" ->
             r.state.documents # <<>> /\ Raised(r.rag) /\ Raised(r.fallback)
      [] r.op = "safe_transform_query" -> Raised(r.reply)

\* the step created one SystemError and logged it for sid, tagged as op's
LoggedOne(sid, op) ==
    /\ error_seq'[sid] = error_seq[sid] + 1
    /\ Len(Errors(sid)') = Min(Len(Errors(sid)) + 1, MaxErrorsKept)
    /\ Errors(sid)'[Len(Errors(sid)')].node = NodeName(op)
    /\ Errors(sid)'[Len(Errors(sid)')].error_type = NodeErrorKind(op)
    /\ Counter(sid, "consecutive_failures")' = Counter(sid, "consecutive_failures") + 1

\* the step logged nothing for sid
LoggedNone(sid) ==
    /\ error_seq'[sid] = error_seq[sid]
    /\ Errors(sid)' = Errors(sid)
    /\ Counter(sid, "consecutive_failures")' = Counter(sid, "consecutive_failures")

\* what the handler of the node call r hands to the graph
BestEffort(r) ==
    /\ r.update.question = r.state.question
    /\ r.update.session_id = r.state.session_id
    /\ r.update.documents = IF r.op = "safe_retrieve" THEN <<>> ELSE r.state.documents
    /\ r.op = "safe_generate" => r.update.generation = Ret(GEN_FALLBACK)

\* C26 as stated: whenever a collaborator raises inside one of the four nodes,
\* the node logs exactly one SystemError tagged with its own name and kind.
C26_EveryExceptionLogged ==
    [][ \A op \in NodeOps, sid \in SessionIds :
            (NodeCallStep(op) /\ Val(ret').state.session_id = sid
             /\ CollaboratorRaised(Val(ret'))) => LoggedOne(sid, op)
      ]_vars

\* C26 amended: a node call in which an exception reaches the node's
\* outermost handler (the retriever raising; the RAG chain and the fallback
\* model call both raising; the rewriter raising) logs exactly one SystemError
\* tagged with the node's name and its kind (RETRIEVAL_ERROR, GENERATION_ERROR,
\* and the generic SYSTEM_ERROR for transform_query) and hands the graph a
\* best-effort state; every other node call logs nothing, a grader raising in
\* grade_documents and the RAG chain raising before a successful fallback
\* included.
C26_HandlerLogsOnce ==
    [][ \A op \in NodeOps, sid \in SessionIds :
            (NodeCallStep(op) /\ Val(ret').state.session_id = sid) =>
                IF HandlerReached(Val(ret'))
                THEN LoggedOne(sid, op) /\ BestEffort(Val(ret'))
                ELSE LoggedNone(sid)
      ]_vars

\* the RAG chain and the fallback call both raised: one GENERATION_ERROR of
\* node "generate" was logged and the canned text handed on
C26_Witness ==
    /\ ret # <<>>
    /\ Val(ret).op = "safe_generate"
    /\ Val(ret).rag = Raise /\ Val(ret).fallback = Raise
    /\ Val(ret).state.documents = <<"d1">>
    /\ Val(ret).update.generation = Ret(GEN_FALLBACK)
    /\ Len(Errors("default")) = 1
    /\ Errors("default")[1].node = "generate"
    /\ Errors("default")[1].error_type = "GENERATION_ERROR"

\* an exception escaped the workflow run: the frame in service stops without
\* consuming a further step of the stream
EscapeStep == pc = "stream" /\ ~WorkflowStepTaken

\* C27: when an exception escapes the workflow run and should_retry permits,
\* retry_count grows by exactly one and the same question is retried for the
\* same session one frame deeper, so that one more "trying again" notice
\* precedes what the retry returns; when should_retry refuses, retry_count is
\* unchanged and the max-retries message is returned behind the notices of
\* the retries already made.  In both cases no error is logged and
\* consecutive_failures is unchanged.
C27_RetryOrGiveUp ==
    [][ \A sid \in SessionIds :
            (EscapeStep /\ session_id = sid) =>
                /\ question' = question
                /\ session_id' = sid
                /\ Errors(sid)' = Errors(sid)
                /\ error_seq' = error_seq
                /\ Counter(sid, "consecutive_failures")' = Counter(sid, "consecutive_failures")
                /\ IF should_retry(session_states, sid, "SYSTEM_ERROR")
                   THEN /\ Counter(sid, "retry_count")' = Counter(sid, "retry_count") + 1
                        /\ IF pc' = "stream"
                           THEN depth' = depth + 1 /\ step_count' = 0
                           ELSE result' # <<>> /\ Val(result').notices = depth + 1
                   ELSE /\ Counter(sid, "retry_count")' = Counter(sid, "retry_count")
                        /\ pc' = "idle"
                        /\ result' = Ret([kind |-> "return", notices |-> depth,
                                          text |-> MSG_MAX_RETRIES])
      ]_vars

\* after three retries the handler refused a fourth: the call returned three
\* notices and the max-retries message, and no error was ever logged
C27_Witness ==
    /\ pc = "idle"
    /\ result # <<>>
    /\ Val(result).text = MSG_MAX_RETRIES
    /\ Val(result).notices = 3
    /\ Counter("default", "retry_count") = 3
    /\ Errors("default") = <<>>

\* the session dict every StateManager method works on: initialize_session
\* hands out the stored one, or the default one for an id not seen before
SessionView(sid) == initialize_session(session_states, sid)[sid]

\* the step is a direct call of the StateManager method op for sid
SMCallStep(op, sid) ==
    pc = "idle" /\ ret' # <<>> /\ Val(ret').op = op /\ Val(ret').session_id = sid

\* C28: log_error raises the session's consecutive_failures by exactly one
\* and leaves retry_count, phase and context unchanged; increment_retry raises
\* retry_count by exactly one and leaves consecutive_failures, the error
\* list, phase and context unchanged.
C28_CounterFrames ==
    [][ \A sid \in SessionIds :
            /\ SMCallStep("log_error", sid) =>
                   /\ SessionView(sid)'.consecutive_failures
                          = SessionView(sid).consecutive_failures + 1
                   /\ SessionView(sid)'.retry_count = SessionView(sid).retry_count
                   /\ SessionView(sid)'.state = SessionView(sid).state
                   /\ SessionView(sid)'.context = SessionView(sid).context
            /\ SMCallStep("increment_retry", sid) =>
                   /\ SessionView(sid)'.retry_count = SessionView(sid).retry_count + 1
                   /\ SessionView(sid)'.consecutive_failures
                          = SessionView(sid).consecutive_failures
                   /\ SessionView(sid)'.errors = SessionView(sid).errors
                   /\ SessionView(sid)'.state = SessionView(sid).state
                   /\ SessionView(sid)'.context = SessionView(sid).context
      ]_vars

\* increment_retry was called on a session in phase SEARCHING with a context
\* entry, two logged errors and one earlier retry
C28_Witness ==
    /\ ret # <<>>
    /\ Val(ret).op = "increment_retry"
    /\ SessionView("default").retry_count = 2
    /\ SessionView("default").consecutive_failures = 2
    /\ Len(SessionView("default").errors) = 2
    /\ SessionView("default").state = "SEARCHING"
    /\ SessionView("default").context = [sentiment_trend |-> "neutral"]

\* the candidates pooled by the Analytical or Opinion branch of the call r
Pool(r) ==
    IF r.category = "Analytical" THEN Gather(r.store, "sub_query", r.llm.parts)
    ELSE Gather(r.store, "viewpoint", IF r.llm.parts = 0 THEN 1 ELSE r.llm.parts)

\* the call r reached the selection by indices: nothing raised before it
SelectionReached(r) ==
    /\ r.category \in {"Analytical", "Opinion"}
    /\ r.llm.text = "ok" /\ r.llm.ranker = "ok"
    /\ ~Raised(r.llm.indices)
    /\ ~Raised(Pool(r))

\* C29: in Analytical and Opinion retrieval, for every index list the
\* selection chain answers, the result is exactly the pooled candidates at the
\* indices within 0 .. pool_size - 1, in the order of the list; an index that
\* is too large or negative selects nothing and triggers no fallback search.
C29_InRangeIndicesSelected ==
    (Retrieving /\ SelectionReached(Val(ret))) =>
        LET r == Val(ret)
            pool == Val(Pool(r))
            inrange == SelectSeq(Val(r.llm.indices), LAMBDA i : 0 <= i /\ i < Len(pool))
        IN  r.outcome = Ret([j \in 1 .. Len(inrange) |-> pool[inrange[j] + 1]])

\* the call r reached the scoring loop of the Contextual branch
ContextualScoringReached(r) ==
    /\ r.category = "Contextual"
    /\ r.llm.text = "ok" /\ r.llm.ranker = "ok"
    /\ "branch" \notin r.store.fails

\* C30: in Contextual retrieval a candidate the ranking chain fails to score
\* gets the default score 5 and the ranking goes on: the result is the top k
\* of the scored candidates in descending order of score, not the result of
\* the fallback similarity search.
C30_ContextualDefaultScore ==
    (Retrieving /\ ContextualScoringReached(Val(ret))) =>
        LET r == Val(ret)
            docs == Val(Search(r.store, "branch", "contextualized", 2 * r.k))
            scores == Scores(r.llm.scores, Len(docs))
        IN  r.outcome = Ret(TopK(docs,
                                 [i \in 1 .. Len(docs) |->
                                     IF Raised(scores[i]) THEN 5 ELSE Val(scores[i])],
                                 r.k))

\* C39: should_retry and get_session_health are read-only: called with a
\* known or an unknown session id they change no field of any session and
\* create no entry; initialize_session, update_state, log_error,
\* increment_retry and reset_failures leave an entry for the id, created with
\* the default values when the id was unknown.
C39_ReadOnlyQueries ==
    [][ \A sid \in SessionIds :
            /\ (SMCallStep("should_retry", sid) \/ SMCallStep("get_session_health", sid))
                   => session_states' = session_states
            /\ SMCallStep("initialize_session", sid) =>
                   /\ sid \in DOMAIN session_states'
                   /\ session_states'[sid] = SessionView(sid)
            /\ SMCallStep("update_state", sid) =>
                   /\ sid \in DOMAIN session_states'
                   /\ \A f \in {"errors", "retry_count", "consecutive_failures"} :
                          session_states'[sid][f] = SessionView(sid)[f]
            /\ SMCallStep("log_error", sid) =>
                   /\ sid \in DOMAIN session_states'
                   /\ \A f \in {"state", "retry_count", "context"} :
                          session_states'[sid][f] = SessionView(sid)[f]
            /\ SMCallStep("increment_retry", sid) =>
                   /\ sid \in DOMAIN session_states'
                   /\ \A f \in {"state", "errors", "consecutive_failures", "context"} :
                          session_states'[sid][f] = SessionView(sid)[f]
            /\ SMCallStep("reset_failures", sid) =>
                   /\ sid \in DOMAIN session_states'
                   /\ \A f \in {"state", "errors", "context"} :
                          session_states'[sid][f] = SessionView(sid)[f]
            /\ (sid \notin DOMAIN session_states /\ sid \in DOMAIN session_states') =>
                   /\ SessionView(sid) = DefaultSession
                   /\ Val(ret').op \in {"initialize_session", "update_state", "log_error",
                                        "increment_retry", "reset_failures"}
      ]_vars

\* get_session_health has been asked about a session id that no call has
\* created: it reports the defaults and the store is still empty
C39_Witness ==
    /\ ret # <<>>
    /\ Val(ret).op = "get_session_health"
    /\ Val(ret).health = NoHealth
    /\ DOMAIN session_states = {}

\* C32: every session's retry_count lies in 0..3 in every reachable state,
\* whatever sequence of generate_response calls is made on the session one
\* after the other.
C32_RetryCountBounded ==
    \A sid \in SessionIds :
        /\ Counter(sid, "retry_count") \in 0..max_retry_attempts
        /\ depth <= Counter(sid, "retry_count")

\* a later call on a session whose three retries are used has been refused a
\* retry: the count stays at 3
C32_Witness ==
    /\ pc = "idle"
    /\ result # <<>>
    /\ Val(result).text = MSG_MAX_RETRIES
    /\ Val(result).notices = 0
    /\ Counter("default", "retry_count") = 3
    /\ Counter("default", "consecutive_failures") = 0

C35_SessionRetryBudget ==
    [][ \A sid \in SessionIds :
          /\ (pc = "idle" /\ session_id' = sid) =>
                 Counter(sid, "retry_count")' = Counter(sid, "retry_count")
          /\ (EscapeStep /\ depth = 0 /\ session_id = sid
                /\ Counter(sid, "retry_count") = max_retry_attempts) =>
                 /\ pc' = "idle"
                 /\ result' = Ret([kind |-> "return", notices |-> 0,
                                   text |-> MSG_MAX_RETRIES])
                 /\ Counter(sid, "retry_count")' = max_retry_attempts
      ]_vars

\* a call made after the three retries were used by earlier calls ran two
\* workflow steps, the stream raised, and it returned the max-retries message
\* at once
C35_Witness ==
    /\ pc = "idle"
    /\ result # <<>>
    /\ Val(result).text = MSG_MAX_RETRIES
    /\ Val(result).notices = 0
    /\ step_count = 2
    /\ Counter("default", "retry_count") = max_retry_attempts

\* C36: when Retrieve yielded at least one document, GradeDocuments emits a
\* non-empty document list (the documents that survived grading, else the web
\* results, else the first two retrieved documents), so the workflow goes on
\* to Generate; GradeDocuments routes to TransformQuery only when retrieval
\* and web search both returned nothing.
C36_GradingNeverStarves ==
    [][ NodeCallStep("safe_grade_documents") =>
            LET r == Val(ret')
                docs == r.state.documents
                survivors == { i \in 1 .. Len(docs) :
                                 r.grades[i] = Raise \/ r.grades[i] = Ret("yes") }
                emitted == r.update.documents
                next == decide_to_generate(DictUpdate(r.state, r.update))
            IN  /\ docs # <<>> =>
                     /\ emitted # <<>>
                     /\ next = "generate"
                     /\ IF survivors # {}
                        THEN Len(emitted) = Cardinality(survivors)
                             /\ \A i \in survivors : \E j \in 1 .. Len(emitted) :
                                    emitted[j] = docs[i]
                        ELSE IF r.web # <<>> THEN emitted = r.web
                        ELSE emitted = SubSeq(docs, 1, Min(2, Len(docs)))
                /\ next = "transform_query" <=> (docs = <<>> /\ r.web = <<>>)
                /\ (docs = <<>> /\ r.web # <<>>) => emitted = r.web
      ]_vars

\* every retrieved document was graded irrelevant and the web search found
\* nothing: the first two retrieved documents were emitted
C36_Witness ==
    /\ ret # <<>>
    /\ Val(ret).op = "safe_grade_documents"
    /\ Len(Val(ret).state.documents) = 3
    /\ \A i \in 1 .. 3 : Val(ret).grades[i] = Ret("no")
    /\ Val(ret).web = <<>>
    /\ Val(ret).update.documents = <<"d1", "d2">>
    /\ decide_to_generate(DictUpdate(Val(ret).state, Val(ret).update)) = "generate"

\* C37 as stated: generate_response stops at the first Generate output: the
\* Generate node runs at most once in an invocation, and when the verdict on
\* its generation is "not supported" or "not useful" the text returned is that
\* generation and the session is marked COMPLETED.
C37_FirstGenerationReturned ==
    [][ \A sid \in SessionIds :
          (WorkflowStepTaken /\ node = "generate" /\ session_id = sid) =>
            /\ ~(pc' = "stream" /\ depth' = depth)
            /\ (edge' # <<>> /\ Val(edge').verdict \in {"not supported", "not useful"}) =>
                 /\ pc' = "idle"
                 /\ Val(result').text = Val(edge').generation
                 /\ Phase(sid)' = "COMPLETED"
      ]_vars

\* C37 amended: generate_response stops at the first Generate output: the
\* Generate node runs at most once in an invocation, and when the verdict on
\* its generation is "not supported" or "not useful" the invocation ends with
\* that step; a generation of at least 10 characters after trimming, the
\* canned technical-difficulties text included, is the text returned and the
\* session is marked COMPLETED, while a shorter one is replaced by the
\* "couldn't provide a complete answer" message and the session stays in
\* phase GENERATING.
C37_FirstGenerationEndsCall ==
    [][ \A sid \in SessionIds :
          (WorkflowStepTaken /\ node = "generate" /\ session_id = sid) =>
            /\ ~(pc' = "stream" /\ depth' = depth)
            /\ (edge' # <<>> /\ Val(edge').verdict \in {"not supported", "not useful"}) =>
                 LET generation == Val(edge').generation
                 IN  /\ generation.isstr
                     /\ pc' = "idle"
                     /\ Val(result').kind = "return"
                     /\ Val(result').notices = depth
                     /\ IF StripLen(generation) >= MinResponseLen
                        THEN /\ Val(result').text = generation
                             /\ Phase(sid)' = "COMPLETED"
                        ELSE /\ Val(result').text = MSG_TOO_SHORT
                             /\ Phase(sid)' = "GENERATING"
      ]_vars

\* the RAG chain and the fallback model both raised: the call returned the
\* canned technical-difficulties generation, judged "not useful", and the
\* session is marked COMPLETED
C37_Witness ==
    /\ pc = "idle"
    /\ result # <<>>
    /\ edge # <<>>
    /\ Val(edge).verdict = "not useful"
    /\ Val(edge).generation = GEN_FALLBACK
    /\ Val(result).text = GEN_FALLBACK
    /\ Phase(session_id) = "COMPLETED"

\* C38: analyze_sentiment never raises: whatever the text and whatever the
\* pipeline does, it returns a result; on a failure the result is NEUTRAL with
\* score 0.5 and exactly one SystemError of node sentiment_analysis is logged
\* to the session, which raises consecutive_failures by one and leaves the
\* sentiment history alone; on a success nothing is logged.  The failures
\* count like any other: with no other error source the session is reported
\* unhealthy from the fifth failure on, and should_retry refuses from the
\* third on.
C38_SentimentFailureLogged ==
    [][ \A sid \in SessionIds :
          /\ (NodeCallStep("analyze_sentiment") /\ Val(ret').session_id = sid) =>
               LET r == Val(ret')
                   failed == ~r.text.isstr \/ Raised(r.analyzed)
               IN  /\ r.result.label \in {"positive", "negative", "neutral"}
                   /\ IF failed
                      THEN /\ r.result = FallbackSentiment
                           /\ SessionView(sid)'.consecutive_failures
                                  = SessionView(sid).consecutive_failures + 1
                           /\ SessionView(sid)'.errors
                                  = LastN(Append(SessionView(sid).errors,
                                                 MkError("SYSTEM_ERROR", "sentiment_analysis",
                                                         error_seq[sid] + 1)), 5)
                           /\ SessionView(sid)'.context = SessionView(sid).context
                      ELSE /\ r.result.label = Val(r.analyzed)
                           /\ SessionView(sid)'.consecutive_failures
                                  = SessionView(sid).consecutive_failures
                           /\ SessionView(sid)'.errors = SessionView(sid).errors
                   /\ SessionView(sid)'.retry_count = SessionView(sid).retry_count
          /\ SMCallStep("get_session_health", sid) =>
               (Val(ret').health.healthy <=> error_seq[sid] < 5)
          /\ (SMCallStep("should_retry", sid) /\ Val(ret').error_type # "VALIDATION_ERROR") =>
               (Val(ret').retry <=> error_seq[sid] < 3)
      ]_vars

\* five failed sentiment analyses, and nothing else, have made the session
\* unhealthy, and should_retry has refused a retry for it
C38_Witness ==
    /\ ret # <<>>
    /\ Val(ret).op = "should_retry"
    /\ Val(ret).error_type = "SYSTEM_ERROR"
    /\ Val(ret).retry = FALSE
    /\ error_seq["default"] = 5
    /\ Counter("default", "consecutive_failures") = 5
    /\ \A i \in 1 .. 5 : Errors("default")[i].node = "sentiment_analysis"
    /\ ~get_session_health(session_states, "default").healthy

\* C31: the webhook is fire-and-forget with a bounded retry: the thread of
\* one payload posts at most 3 times (retries + 1), posts nothing after a post
\* answered with status 200, and no post, whatever its status or failure,
\* changes the answer computed for the caller or any session state.
C31_BoundedFireAndForget ==
    [][ (ret' # <<>> /\ Val(ret').op = "send_to_n8n_async") =>
            LET t == Val(ret')
            IN  /\ Len(t.posts) <= n8n_retries + 1
                /\ t.running => Len(t.posts) <= n8n_retries
                /\ \A i \in 1 .. Len(t.posts) - 1 : t.posts[i] # Ret(200)
                /\ (ret # <<>> /\ Val(ret).op = "send_to_n8n_async") =>
                     /\ Len(t.posts) = Len(Val(ret).posts) + 1
                     /\ t.payload = Val(ret).payload
                     /\ t.payload.response = Val(result')
                     /\ session_states' = session_states
                     /\ result' = result
                     /\ pc' = "idle"
      ]_vars

\* the thread gave up after three posts, of which two raised and one was
\* answered with status 500; the answer and the completed session are as the
\* request left them
C31_Witness ==
    /\ ret # <<>>
    /\ Val(ret).op = "send_to_n8n_async"
    /\ Val(ret).posts = <<Raise, Ret(500), Raise>>
    /\ ~Val(ret).running
    /\ Val(ret).payload.response = Val(result)
    /\ Val(result).text = Str("answer", 0, 40, FALSE)
    /\ Phase("default") = "COMPLETED"

\* C33: no error is lost when two requests for one session interleave: once
\* two concurrent log_error calls on the session are both over,
\* consecutive_failures is exactly 2 higher than before them and both errors
\* are in the error list, which holds the last 5 of the errors logged.
C33_NoErrorLost ==
    (Racing /\ \A t \in Threads : Val(ret).threads[t].pc = "done") =>
        LET r == Val(ret)
            sid == r.session_id
            one == RacedError(r, 1)
            two == RacedError(r, 2)
        IN  /\ sid \in DOMAIN session_states
            /\ Counter(sid, "consecutive_failures") = r.before.consecutive_failures + 2
            /\ Errors(sid) \in { LastN(r.before.errors \o <<one, two>>, 5),
                                 LastN(r.before.errors \o <<two, one>>, 5) }

====
